---- MODULE Spec2Model ----
(***************************************************************************)
(* A model of Qub for Typescript: the Iterator / Iterable / Indexable      *)
(* protocol, its where / skip / take / map / concatenate decorators, the   *)
(* ArrayList and SingleLinkList containers, StringIterator and the Lexer.  *)
(*                                                                         *)
(* Objects live in a store S:                                              *)
(*   S.arrayList        the fields of the caller's ArrayList               *)
(*   S.nodes            the SingleLinkNode objects, addressed by position  *)
(*   S.singleLinkList   the fields of the caller's SingleLinkList          *)
(*   S.its              the Iterator objects, addressed by position        *)
(* A method that changes an object takes the store and returns the new     *)
(* store together with its return value, [S |-> ..., r |-> ...].           *)
(* Iterables other than the two containers are immutable descriptors and   *)
(* are carried by value; so is an ArrayList that a view creates for        *)
(* itself and that nothing else can reach (owner = "view").                *)
(*                                                                         *)
(* Numbers, list elements, characters (as character codes) and object      *)
(* references are integers; functions passed as arguments are named by     *)
(* strings; a Lex is a record.                                             *)
(***************************************************************************)
EXTENDS Integers, Sequences, FiniteSets, TLC

\* ---------------------------------------------------------------- bounds
\* The longest sequence of values a container or a text is built from.
MaxLen == 2
\* The largest count passed to skip() and take().
MaxCount == 1
\* The most Iterator objects a behaviour allocates.
MaxIterators == 3

\* ------------------------------------------------------- absent values
\* The value of an absent number, element or object reference.
undefined == -1000
\* The name of an absent function argument.
undefinedFunction == "undefined"
\* The value of an absent object that is a record here (a Lex, an Iterable).
undefinedObject == [undefined |-> TRUE]
\* The value of an absent text; a text is a sequence of character codes.
undefinedText == <<undefined>>

\* The number that is not a number.
NaN == -2000

isDefined(value) == value # undefined

Ret(S, r) == [S |-> S, r |-> r]

\* toSkip && 0 < toSkip  /  toTake && 0 < toTake
IsPositive(n) == isDefined(n) /\ n # 0 /\ 0 < n

Min(a, b) == IF a < b THEN a ELSE b
Max(a, b) == IF a < b THEN b ELSE a

\* ------------------------------------------- functions passed as arguments
Conditions == {"isOdd"}
MapFunctions == {"plusOne"}

\* Characters are character codes: "a" = 97, "z" = 122, "A" = 65, "Z" = 90,
\* "0" = 48, "9" = 57, " " = 32, "\t" = 9, "\r" = 13, "\n" = 10.
isWhitespace(value) == value \in {32, 9, 13}

isLetter(character) ==
    (97 <= character /\ character <= 122) \/ (65 <= character /\ character <= 90)

isDigit(character) == 48 <= character /\ character <= 57

ApplyCondition(condition, value) ==
    CASE condition = "isOdd" -> value % 2 = 1
      [] condition = "isLetter" -> isLetter(value)
      [] condition = "isDigit" -> isDigit(value)
      [] condition = "isWhitespace" -> isWhitespace(value)
      [] OTHER -> FALSE

\* Arithmetic on undefined gives NaN.
ApplyMapFunction(mapFunction, value) ==
    CASE ~isDefined(value) \/ value = NaN -> NaN
      [] mapFunction = "plusOne" -> value + 1

\* ------------------------------------------------------------ ArrayList
EmptyArrayList == [_data |-> << >>, _count |-> 0]

ArrayList_add(a, value) ==
    [_data  |-> IF a._count = Len(a._data)
                  THEN Append(a._data, value)
                  ELSE [a._data EXCEPT ![a._count + 1] = value],
     _count |-> a._count + 1]

RECURSIVE ArrayList_addAll(_, _)
ArrayList_addAll(a, values) ==
    IF values = << >> THEN a
    ELSE ArrayList_addAll(ArrayList_add(a, Head(values)), Tail(values))

\* new ArrayList(values)
NewArrayList(values) == ArrayList_addAll(EmptyArrayList, values)

ArrayList_get(a, index) ==
    IF isDefined(index) /\ 0 <= index /\ index < a._count
      THEN a._data[index + 1]
      ELSE undefined

\* A removeAt() that drops the last value whatever the index.
ArrayList_removeAt_dropsLast(a, index) ==
    IF isDefined(index) /\ 0 <= index /\ index < a._count
      THEN [_data  |-> [a._data EXCEPT ![a._count] = undefined],
            _count |-> a._count - 1]
      ELSE a

ArrayList_removeAt(a, index) ==
    IF isDefined(index) /\ 0 <= index /\ index < a._count
      THEN [_data  |-> [i \in 1 .. Len(a._data) |->
                          IF i < index + 1 \/ i > a._count THEN a._data[i]
                          ELSE IF i = a._count THEN undefined
                          ELSE a._data[i + 1]],
            _count |-> a._count - 1]
      ELSE a

ArrayList_clear(a) == [a EXCEPT !._count = 0]

\* ------------------------------------------------------- SingleLinkList
EmptySingleLinkList == [_head |-> undefined, _tail |-> undefined]

\* Nodes and list fields travel together: L = [nodes |-> ..., list |-> ...].
SingleLinkList_add(L, value) ==
    LET nodeToAdd == Len(L.nodes) + 1
        nodes1 == Append(L.nodes, [_value |-> value, _next |-> undefined])
    IN  IF ~isDefined(L.list._head)
          THEN [nodes |-> nodes1,
                list  |-> [_head |-> nodeToAdd, _tail |-> nodeToAdd]]
          ELSE [nodes |-> [nodes1 EXCEPT ![L.list._tail]._next = nodeToAdd],
                list  |-> [L.list EXCEPT !._tail = nodeToAdd]]

RECURSIVE SingleLinkList_addAll(_, _)
SingleLinkList_addAll(L, values) ==
    IF values = << >> THEN L
    ELSE SingleLinkList_addAll(SingleLinkList_add(L, Head(values)), Tail(values))

NewSingleLinkList(values) ==
    SingleLinkList_addAll([nodes |-> << >>, list |-> EmptySingleLinkList], values)

RECURSIVE SingleLinkList_getNodeFrom(_, _, _)
SingleLinkList_getNodeFrom(nodes, resultNode, index) ==
    IF isDefined(resultNode) /\ 0 < index
      THEN SingleLinkList_getNodeFrom(nodes, nodes[resultNode]._next, index - 1)
      ELSE resultNode

SingleLinkList_getNode(S, index) ==
    IF isDefined(index) /\ 0 <= index
      THEN SingleLinkList_getNodeFrom(S.nodes, S.singleLinkList._head, index)
      ELSE undefined

SingleLinkList_get(S, index) ==
    LET resultNode == SingleLinkList_getNode(S, index)
    IN  IF isDefined(resultNode) THEN S.nodes[resultNode]._value ELSE undefined

RECURSIVE SingleLinkList_countFrom(_, _)
SingleLinkList_countFrom(nodes, searchNode) ==
    IF isDefined(searchNode)
      THEN 1 + SingleLinkList_countFrom(nodes, nodes[searchNode]._next)
      ELSE 0

SingleLinkList_getCount(S) ==
    SingleLinkList_countFrom(S.nodes, S.singleLinkList._head)

\* ============================================================ Iterators
\* A call through an interface: Call goes to the method of the object's
\* class (defined below, after the classes).
RECURSIVE Call(_, _, _, _)

\* interface Iterator<T>
Iterator_hasStarted(S, it) == Call(S, it, "hasStarted", << >>)
Iterator_hasCurrent(S, it) == Call(S, it, "hasCurrent", << >>)
Iterator_next(S, it) == Call(S, it, "next", << >>)
Iterator_getCurrent(S, it) == Call(S, it, "getCurrent", << >>)
Iterator_getCount(S, it) == Call(S, it, "getCount", << >>)
Iterator_toArray(S, it) == Call(S, it, "toArray", << >>)
Iterator_where(S, it, condition) == Call(S, it, "where", <<condition>>)
Iterator_skip(S, it, toSkip) == Call(S, it, "skip", <<toSkip>>)
Iterator_take(S, it, toTake) == Call(S, it, "take", <<toTake>>)
Iterator_map(S, it, mapFunction) == Call(S, it, "map", <<mapFunction>>)
Iterator_concatenate(S, it, toConcatenate) ==
    Call(S, it, "concatenate", <<toConcatenate>>)

\* interface Iterable<T> and interface Indexable<T>
Iterable_iterate(S, v) == Call(S, v, "iterate", << >>)
Indexable_iterateReverse(S, v) == Call(S, v, "iterateReverse", << >>)
Iterable_getCount(S, v) == Call(S, v, "Iterable.getCount", << >>)
Indexable_get(S, v, index) == Call(S, v, "get", <<index>>)
Iterable_toArray(S, v) == Call(S, v, "Iterable.toArray", << >>)
Iterable_any(S, v, condition) == Call(S, v, "Iterable.any", <<condition>>)
Iterable_concatenate(S, v, toConcatenate) ==
    Call(S, v, "Iterable.concatenate", <<toConcatenate>>)

\* Allocate a new Iterator object; r is its reference.
New(S, object) == Ret([S EXCEPT !.its = Append(@, object)], Len(S.its) + 1)

\* ---------------------------------------------------- IndexableIterator
\* An Indexable that hands out the IndexableIterator it created before.
NewIndexableIterator_shared(S, indexable) ==
    LET existing == {i \in 1 .. Len(S.its) :
                        /\ S.its[i].kind = "IndexableIterator"
                        /\ S.its[i]._indexable = indexable}
    IN  IF existing # {} THEN Ret(S, CHOOSE i \in existing : TRUE)
        ELSE New(S, [kind |-> "IndexableIterator", _indexable |-> indexable,
                     _currentIndex |-> undefined, _count |-> undefined])

NewIndexableIterator(S, indexable) ==
    New(S, [kind |-> "IndexableIterator", _indexable |-> indexable,
            _currentIndex |-> undefined, _count |-> undefined])

IndexableIterator_hasStarted(S, it) == isDefined(S.its[it]._currentIndex)

IndexableIterator_hasCurrent(S, it) ==
    IndexableIterator_hasStarted(S, it) /\ S.its[it]._currentIndex < S.its[it]._count

IndexableIterator_getCurrent(S, it) ==
    IF IndexableIterator_hasCurrent(S, it)
      THEN Indexable_get(S, S.its[it]._indexable, S.its[it]._currentIndex)
      ELSE undefined

IndexableIterator_next(S, it) ==
    LET S1 == IF ~IndexableIterator_hasStarted(S, it)
                THEN [S EXCEPT !.its[it]._currentIndex = 0,
                               !.its[it]._count = Iterable_getCount(S, S.its[it]._indexable)]
              ELSE IF IndexableIterator_hasCurrent(S, it)
                THEN [S EXCEPT !.its[it]._currentIndex = @ + 1]
              ELSE S
    IN  Ret(S1, IndexableIterator_hasCurrent(S1, it))

\* --------------------------------------------- IndexableReverseIterator
NewIndexableReverseIterator(S, indexable) ==
    New(S, [kind |-> "IndexableReverseIterator", _indexable |-> indexable,
            _currentIndex |-> undefined])

IndexableReverseIterator_hasStarted(S, it) == isDefined(S.its[it]._currentIndex)

IndexableReverseIterator_hasCurrent(S, it) ==
    IndexableReverseIterator_hasStarted(S, it) /\ 0 <= S.its[it]._currentIndex

\* A getCurrent() that counts its index from the front of the Indexable.
IndexableReverseIterator_getCurrent_fromFront(S, it) ==
    IF IndexableReverseIterator_hasCurrent(S, it)
      THEN Indexable_get(S, S.its[it]._indexable,
                         Iterable_getCount(S, S.its[it]._indexable) - 1
                           - S.its[it]._currentIndex)
      ELSE undefined

IndexableReverseIterator_getCurrent(S, it) ==
    IF IndexableReverseIterator_hasCurrent(S, it)
      THEN Indexable_get(S, S.its[it]._indexable, S.its[it]._currentIndex)
      ELSE undefined

IndexableReverseIterator_next(S, it) ==
    LET S1 == IF ~IndexableReverseIterator_hasStarted(S, it)
                THEN [S EXCEPT !.its[it]._currentIndex =
                                  Iterable_getCount(S, S.its[it]._indexable) - 1]
              ELSE IF IndexableReverseIterator_hasCurrent(S, it)
                THEN [S EXCEPT !.its[it]._currentIndex = @ - 1]
              ELSE S
    IN  Ret(S1, IndexableReverseIterator_hasCurrent(S1, it))

\* ------------------------------------------------ SingleLinkNodeIterator
NewSingleLinkNodeIterator(S, currentNode) ==
    New(S, [kind |-> "SingleLinkNodeIterator", _hasStarted |-> FALSE,
            _currentNode |-> currentNode])

SingleLinkNodeIterator_hasStarted(S, it) == S.its[it]._hasStarted

SingleLinkNodeIterator_hasCurrent(S, it) ==
    S.its[it]._hasStarted /\ isDefined(S.its[it]._currentNode)

SingleLinkNodeIterator_getCurrent(S, it) ==
    IF SingleLinkNodeIterator_hasCurrent(S, it)
      THEN S.nodes[S.its[it]._currentNode]._value
      ELSE undefined

\* A SingleLinkNodeIterator that starts only when there is a node to start on.
SingleLinkNodeIterator_next_startsOnNode(S, it) ==
    LET S1 == IF ~S.its[it]._hasStarted
                THEN [S EXCEPT !.its[it]._hasStarted = isDefined(S.its[it]._currentNode)]
              ELSE IF isDefined(S.its[it]._currentNode)
                THEN [S EXCEPT !.its[it]._currentNode = S.nodes[@]._next]
              ELSE S
    IN  Ret(S1, S1.its[it]._hasStarted /\ isDefined(S1.its[it]._currentNode))

SingleLinkNodeIterator_next(S, it) ==
    LET S1 == IF ~SingleLinkNodeIterator_hasStarted(S, it)
                THEN [S EXCEPT !.its[it]._hasStarted = TRUE]
              ELSE IF isDefined(S.its[it]._currentNode)
                THEN [S EXCEPT !.its[it]._currentNode = S.nodes[@]._next]
              ELSE S
    IN  Ret(S1, SingleLinkNodeIterator_hasCurrent(S1, it))

\* -------------------------------------------------------- StringIterator
getLength(value) == IF value # undefinedText THEN Len(value) ELSE 0

\* text[index]: indexing a string outside its bounds gives undefined.
CharAt(text, index) ==
    IF 0 <= index /\ index < getLength(text) THEN text[index + 1] ELSE undefined

NewStringIterator(S, text, startIndex, endIndex) ==
    New(S, [kind |-> "StringIterator", _text |-> text,
            _currentIndex |-> startIndex, _started |-> FALSE,
            _step |-> IF endIndex >= startIndex THEN 1 ELSE -1,
            _endIndex |-> endIndex])

\* A hasMore() for which the end index is one of the indexes to visit.
StringIterator_hasMore_inclusive(S, it) ==
    IF S.its[it]._step > 0
      THEN S.its[it]._currentIndex <= S.its[it]._endIndex
      ELSE S.its[it]._currentIndex >= S.its[it]._endIndex

StringIterator_hasMore(S, it) ==
    IF S.its[it]._step > 0
      THEN S.its[it]._currentIndex < S.its[it]._endIndex
      ELSE S.its[it]._currentIndex > S.its[it]._endIndex

StringIterator_hasStarted(S, it) == S.its[it]._started

StringIterator_hasCurrent(S, it) ==
    StringIterator_hasStarted(S, it) /\ StringIterator_hasMore(S, it)

StringIterator_getCurrent(S, it) ==
    IF StringIterator_hasCurrent(S, it)
      THEN CharAt(S.its[it]._text, S.its[it]._currentIndex)
      ELSE undefined

StringIterator_next(S, it) ==
    LET S1 == IF S.its[it]._started = FALSE
                THEN [S EXCEPT !.its[it]._started = TRUE]
              ELSE IF StringIterator_hasMore(S, it)
                THEN [S EXCEPT !.its[it]._currentIndex = @ + S.its[it]._step]
              ELSE S
    IN  Ret(S1, StringIterator_hasMore(S1, it))

\* ----------------------------------------------------- IteratorDecorator
IteratorDecorator_hasStarted(S, it) == Iterator_hasStarted(S, S.its[it]._innerIterator)
IteratorDecorator_hasCurrent(S, it) == Iterator_hasCurrent(S, S.its[it]._innerIterator)
IteratorDecorator_next(S, it) == Iterator_next(S, S.its[it]._innerIterator)
IteratorDecorator_getCurrent(S, it) == Iterator_getCurrent(S, S.its[it]._innerIterator)

\* --------------------------------------------------------- WhereIterator
\* while (this.hasCurrent() && !this._condition(this.getCurrent())) super.next();
RECURSIVE WhereIterator_constructorLoop(_, _)
WhereIterator_constructorLoop(S, it) ==
    LET hc == IteratorDecorator_hasCurrent(S, it)
        gc == IteratorDecorator_getCurrent(hc.S, it)
    IN  IF ~hc.r THEN hc.S
        ELSE IF ApplyCondition(S.its[it]._condition, gc.r) THEN gc.S
        ELSE WhereIterator_constructorLoop(IteratorDecorator_next(gc.S, it).S, it)

\* A WhereIterator whose constructor leaves the inner Iterator where it is.
NewWhereIterator_unfiltered(S, innerIterator, condition) ==
    New(S, [kind |-> "WhereIterator", _innerIterator |-> innerIterator,
            _condition |-> condition])

NewWhereIterator(S, innerIterator, condition) ==
    LET n == New(S, [kind |-> "WhereIterator", _innerIterator |-> innerIterator,
                     _condition |-> condition])
    IN  IF condition # undefinedFunction
          THEN Ret(WhereIterator_constructorLoop(n.S, n.r), n.r)
          ELSE n

\* while (super.next() && !this._condition(this.getCurrent())) {}
RECURSIVE WhereIterator_nextLoop(_, _)
WhereIterator_nextLoop(S, it) ==
    LET n  == IteratorDecorator_next(S, it)
        gc == IteratorDecorator_getCurrent(n.S, it)
    IN  IF ~n.r THEN n.S
        ELSE IF ApplyCondition(S.its[it]._condition, gc.r) THEN gc.S
        ELSE WhereIterator_nextLoop(gc.S, it)

\* A next() that advances once whatever the condition.
WhereIterator_next_unfiltered(S, it) ==
    IteratorDecorator_hasCurrent(IteratorDecorator_next(S, it).S, it)

WhereIterator_next(S, it) ==
    LET S1 == IF S.its[it]._condition = undefinedFunction
                THEN IteratorDecorator_next(S, it).S
                ELSE WhereIterator_nextLoop(S, it)
    IN  IteratorDecorator_hasCurrent(S1, it)

\* ---------------------------------------------------------- SkipIterator
\* A SkipIterator whose constructor skips the first value already.
NewSkipIterator_eager(S, innerIterator, toSkip) ==
    LET n == New(S, [kind |-> "SkipIterator", _innerIterator |-> innerIterator,
                     _toSkip |-> toSkip, _skipped |-> 0])
    IN  IF IsPositive(toSkip)
          THEN Ret([Iterator_next(n.S, innerIterator).S
                        EXCEPT !.its[n.r]._skipped = 1], n.r)
          ELSE n

NewSkipIterator(S, innerIterator, toSkip) ==
    New(S, [kind |-> "SkipIterator", _innerIterator |-> innerIterator,
            _toSkip |-> toSkip, _skipped |-> 0])

RECURSIVE SkipIterator_skipValues(_, _)
SkipIterator_skipValues(S, it) ==
    IF isDefined(S.its[it]._toSkip) /\ S.its[it]._skipped < S.its[it]._toSkip
      THEN LET n == IteratorDecorator_next(S, it)
           IN  SkipIterator_skipValues(
                   [n.S EXCEPT !.its[it]._skipped =
                        IF ~n.r THEN S.its[it]._toSkip ELSE @ + 1], it)
      ELSE S

SkipIterator_hasCurrent(S, it) ==
    LET hc == IteratorDecorator_hasCurrent(S, it)
        S1 == IF hc.r THEN SkipIterator_skipValues(hc.S, it) ELSE hc.S
    IN  IteratorDecorator_hasCurrent(S1, it)

SkipIterator_next(S, it) ==
    IteratorDecorator_next(SkipIterator_skipValues(S, it), it)

SkipIterator_getCurrent(S, it) ==
    LET hc == IteratorDecorator_hasCurrent(S, it)
        S1 == IF hc.r THEN SkipIterator_skipValues(hc.S, it) ELSE hc.S
    IN  IteratorDecorator_getCurrent(S1, it)

\* ---------------------------------------------------------- TakeIterator
\* A TakeIterator that does not count the value its inner Iterator is at.
NewTakeIterator_countsFromZero(S, innerIterator, toTake) ==
    New(S, [kind |-> "TakeIterator", _innerIterator |-> innerIterator,
            _toTake |-> toTake, _taken |-> 0])

NewTakeIterator(S, innerIterator, toTake) ==
    LET n  == New(S, [kind |-> "TakeIterator", _innerIterator |-> innerIterator,
                      _toTake |-> toTake, _taken |-> 0])
        hc == IteratorDecorator_hasCurrent(n.S, n.r)
    IN  Ret([hc.S EXCEPT !.its[n.r]._taken = IF hc.r THEN 1 ELSE 0], n.r)

\* A TakeIterator that stops one value early.
TakeIterator_canTakeValue_strict(S, it) ==
    isDefined(S.its[it]._toTake) /\ S.its[it]._taken < S.its[it]._toTake

TakeIterator_canTakeValue(S, it) ==
    isDefined(S.its[it]._toTake) /\ S.its[it]._taken <= S.its[it]._toTake

TakeIterator_hasCurrent(S, it) ==
    LET hc == IteratorDecorator_hasCurrent(S, it)
    IN  Ret(hc.S, hc.r /\ TakeIterator_canTakeValue(hc.S, it))

\* A TakeIterator whose next() answers with what the inner next() returned.
TakeIterator_next_innerResult(S, it) ==
    IF TakeIterator_canTakeValue(S, it)
      THEN IteratorDecorator_next([S EXCEPT !.its[it]._taken = @ + 1], it)
      ELSE Ret(S, FALSE)

TakeIterator_next(S, it) ==
    LET S1 == IF TakeIterator_canTakeValue(S, it)
                THEN IteratorDecorator_next(
                         [S EXCEPT !.its[it]._taken = @ + 1], it).S
                ELSE S
    IN  TakeIterator_hasCurrent(S1, it)

\* A TakeIterator that does not override getCurrent().
TakeIterator_getCurrent_inherited(S, it) == IteratorDecorator_getCurrent(S, it)

TakeIterator_getCurrent(S, it) ==
    LET hc == TakeIterator_hasCurrent(S, it)
    IN  IF hc.r THEN IteratorDecorator_getCurrent(hc.S, it) ELSE Ret(hc.S, undefined)

\* ----------------------------------------------------------- MapIterator
NewMapIterator(S, innerIterator, mapFunction) ==
    New(S, [kind |-> "MapIterator", _innerIterator |-> innerIterator,
            _mapFunction |-> mapFunction,
            _started |-> Iterator_hasStarted(S, innerIterator)])

MapIterator_hasStarted(S, it) == S.its[it]._started

MapIterator_hasCurrent(S, it) ==
    IF S.its[it]._mapFunction # undefinedFunction
      THEN Iterator_hasCurrent(S, S.its[it]._innerIterator)
      ELSE Ret(S, FALSE)

MapIterator_next(S, it) ==
    LET S1 == [S EXCEPT !.its[it]._started = TRUE]
    IN  IF S.its[it]._mapFunction # undefinedFunction
          THEN Iterator_next(S1, S.its[it]._innerIterator)
          ELSE Ret(S1, FALSE)

MapIterator_getCurrent(S, it) ==
    LET hc == MapIterator_hasCurrent(S, it)
        gc == Iterator_getCurrent(hc.S, S.its[it]._innerIterator)
    IN  IF hc.r THEN Ret(gc.S, ApplyMapFunction(S.its[it]._mapFunction, gc.r))
        ELSE Ret(hc.S, undefined)

\* --------------------------------------------------- ConcatenateIterator
NewConcatenateIterator(S, first, second) ==
    New(S, [kind |-> "ConcatenateIterator", _first |-> first, _second |-> second])

ConcatenateIterator_hasStarted(S, it) == Iterator_hasStarted(S, S.its[it]._first)

ConcatenateIterator_hasCurrent(S, it) ==
    LET f == Iterator_hasCurrent(S, S.its[it]._first)
    IN  IF f.r THEN f ELSE Iterator_hasCurrent(f.S, S.its[it]._second)

ConcatenateIterator_next(S, it) ==
    LET f == Iterator_next(S, S.its[it]._first)
    IN  IF f.r THEN f ELSE Iterator_next(f.S, S.its[it]._second)

ConcatenateIterator_getCurrent(S, it) ==
    LET f == Iterator_hasCurrent(S, S.its[it]._first)
    IN  IF f.r THEN Iterator_getCurrent(f.S, S.its[it]._first)
        ELSE Iterator_getCurrent(f.S, S.its[it]._second)

\* ------------------------------------------------------------------- Lex
\* A readLetters() that reads the one letter the iterator is at.
readLetters_oneLetter(S, iterator) ==
    Ret(Iterator_next(S, iterator).S, <<Iterator_getCurrent(S, iterator).r>>)

\* An afterEndIndex that takes every Lex to be one character long.
Lex_getAfterEndIndex_oneCharacter(lex) == lex._startIndex + 1

NewLex(text, startIndex, type) ==
    [_text |-> text, _startIndex |-> startIndex, _type |-> type]

Lex_getLength(lex) == Len(lex._text)
Lex_getAfterEndIndex(lex) == lex._startIndex + Lex_getLength(lex)

\* The one-character cases of the switch in Lexer.next() other than "\r":
\* the character code and the LexType of the Lex it produces.
SingleCharacterLexTypes ==
    (123 :> "LeftCurlyBracket") @@ (125 :> "RightCurlyBracket") @@
    (91 :> "LeftSquareBracket") @@ (93 :> "RightSquareBracket") @@
    (40 :> "LeftParenthesis") @@ (41 :> "RightParenthesis") @@
    (60 :> "LeftAngleBracket") @@ (62 :> "RightAngleBracket") @@
    (34 :> "DoubleQuote") @@ (39 :> "SingleQuote") @@
    (45 :> "Dash") @@ (43 :> "Plus") @@ (44 :> "Comma") @@
    (58 :> "Colon") @@ (59 :> "Semicolon") @@ (33 :> "ExclamationPoint") @@
    (92 :> "Backslash") @@ (47 :> "ForwardSlash") @@ (63 :> "QuestionMark") @@
    (61 :> "EqualsSign") @@ (46 :> "Period") @@ (95 :> "Underscore") @@
    (38 :> "Ampersand") @@ (32 :> "Space") @@ (9 :> "Tab") @@
    (10 :> "NewLine") @@ (42 :> "Asterisk") @@ (37 :> "Percent") @@
    (124 :> "VerticalBar") @@ (35 :> "Hash")

\* ------------------------------------------------------------- readWhile
\* while (iterator.next() && condition(iterator.getCurrent())) result += ...
RECURSIVE readWhileLoop(_, _, _, _)
readWhileLoop(S, iterator, condition, result) ==
    LET n  == Iterator_next(S, iterator)
        gc == Iterator_getCurrent(n.S, iterator)
    IN  IF n.r /\ ApplyCondition(condition, gc.r)
          THEN readWhileLoop(gc.S, iterator, condition, Append(result, gc.r))
          ELSE Ret(IF n.r THEN gc.S ELSE n.S, result)

readWhile(S, iterator, condition) ==
    LET S1 == IF ~Iterator_hasStarted(S, iterator)
                THEN Iterator_next(S, iterator).S ELSE S
        hc == Iterator_hasCurrent(S1, iterator)
        gc == Iterator_getCurrent(hc.S, iterator)
    IN  IF hc.r /\ ApplyCondition(condition, gc.r)
          THEN readWhileLoop(gc.S, iterator, condition, <<gc.r>>)
          ELSE readWhileLoop(IF hc.r THEN gc.S ELSE hc.S, iterator, condition, << >>)

readLetters(S, iterator) == readWhile(S, iterator, "isLetter")
readWhitespace(S, iterator) == readWhile(S, iterator, "isWhitespace")
readDigits(S, iterator) == readWhile(S, iterator, "isDigit")

\* ----------------------------------------------------------------- Lexer
NewLexer(S, text) ==
    LET c == NewStringIterator(S, text, 0, getLength(text))
    IN  New(c.S, [kind |-> "Lexer", _characters |-> c.r, _hasStarted |-> FALSE,
                  _currentLex |-> undefinedObject])

Lexer_hasStarted(S, it) == S.its[it]._hasStarted
Lexer_hasCurrent(S, it) == S.its[it]._currentLex # undefinedObject
Lexer_getCurrent(S, it) == S.its[it]._currentLex

\* A Lexer that never looks past the character it is at.
Lexer_readLex_noLookahead(S, characters, lexStartIndex) ==
    Ret(Iterator_next(S, characters).S,
        NewLex(<<Iterator_getCurrent(S, characters).r>>, lexStartIndex,
               IF Iterator_getCurrent(S, characters).r = 13
                 THEN "CarriageReturn" ELSE "Unrecognized"))

\* The body of if (this._characters.hasCurrent()) { switch ... }: the store
\* and the Lex assigned to _currentLex.
Lexer_readLex(S, characters, lexStartIndex) ==
    LET lexFirstCharacter == Iterator_getCurrent(S, characters).r
    IN  IF lexFirstCharacter \in DOMAIN SingleCharacterLexTypes
          THEN Ret(Iterator_next(S, characters).S,
                   NewLex(<<lexFirstCharacter>>, lexStartIndex,
                          SingleCharacterLexTypes[lexFirstCharacter]))
        ELSE IF lexFirstCharacter = 13
          THEN LET n == Iterator_next(S, characters)
               IN  IF ~n.r \/ Iterator_getCurrent(n.S, characters).r # 10
                     THEN Ret(n.S, NewLex(<<13>>, lexStartIndex, "CarriageReturn"))
                     ELSE Ret(Iterator_next(n.S, characters).S,
                              NewLex(<<13, 10>>, lexStartIndex, "CarriageReturnNewLine"))
        ELSE IF isLetter(lexFirstCharacter)
          THEN LET t == readLetters(S, characters)
               IN  Ret(t.S, NewLex(t.r, lexStartIndex, "Letters"))
        ELSE IF isDigit(lexFirstCharacter)
          THEN LET t == readDigits(S, characters)
               IN  Ret(t.S, NewLex(t.r, lexStartIndex, "Digits"))
        ELSE Ret(Iterator_next(S, characters).S,
                 NewLex(<<lexFirstCharacter>>, lexStartIndex, "Unrecognized"))

\* A Lexer that keeps the Lex it has when there is no character left.
Lexer_setCurrentLex_keepsLast(S, it, lex) ==
    IF lex = undefinedObject
      THEN Ret(S, S.its[it]._currentLex # undefinedObject)
      ELSE Ret([S EXCEPT !.its[it]._currentLex = lex], TRUE)

\* this._currentLex = lex; return this.hasCurrent();
Lexer_setCurrentLex(S, it, lex) ==
    Ret([S EXCEPT !.its[it]._currentLex = lex], lex # undefinedObject)

Lexer_assignLex(it, lx) == Lexer_setCurrentLex(lx.S, it, lx.r)

Lexer_next(S, it) ==
    LET characters == S.its[it]._characters
        lexStartIndex ==
            IF ~S.its[it]._hasStarted THEN 0
            ELSE IF S.its[it]._currentLex # undefinedObject
              THEN Lex_getAfterEndIndex(S.its[it]._currentLex)
            ELSE undefined
        S1 == IF ~S.its[it]._hasStarted
                THEN Iterator_next([S EXCEPT !.its[it]._hasStarted = TRUE], characters).S
                ELSE S
        hc == Iterator_hasCurrent(S1, characters)
    IN  IF hc.r
          THEN Lexer_assignLex(it, Lexer_readLex(hc.S, characters, lexStartIndex))
          ELSE Lexer_setCurrentLex(hc.S, it, undefinedObject)

\* ------------------------------------------------ the Iterator interface
\* Calls through the Iterator interface go to the method of the object's class.
Dispatch_Iterator_hasStarted(S, it) ==
    LET kind == S.its[it].kind
    IN  CASE kind = "IndexableIterator" -> IndexableIterator_hasStarted(S, it)
          [] kind = "IndexableReverseIterator" -> IndexableReverseIterator_hasStarted(S, it)
          [] kind = "SingleLinkNodeIterator" -> SingleLinkNodeIterator_hasStarted(S, it)
          [] kind = "StringIterator" -> StringIterator_hasStarted(S, it)
          [] kind = "Lexer" -> Lexer_hasStarted(S, it)
          [] kind = "MapIterator" -> MapIterator_hasStarted(S, it)
          [] kind = "ConcatenateIterator" -> ConcatenateIterator_hasStarted(S, it)
          [] kind \in {"WhereIterator", "SkipIterator", "TakeIterator"} ->
                 IteratorDecorator_hasStarted(S, it)

Dispatch_Iterator_hasCurrent(S, it) ==
    LET kind == S.its[it].kind
    IN  CASE kind = "IndexableIterator" -> Ret(S, IndexableIterator_hasCurrent(S, it))
          [] kind = "IndexableReverseIterator" ->
                 Ret(S, IndexableReverseIterator_hasCurrent(S, it))
          [] kind = "SingleLinkNodeIterator" ->
                 Ret(S, SingleLinkNodeIterator_hasCurrent(S, it))
          [] kind = "StringIterator" -> Ret(S, StringIterator_hasCurrent(S, it))
          [] kind = "Lexer" -> Ret(S, Lexer_hasCurrent(S, it))
          [] kind = "WhereIterator" -> IteratorDecorator_hasCurrent(S, it)
          [] kind = "SkipIterator" -> SkipIterator_hasCurrent(S, it)
          [] kind = "TakeIterator" -> TakeIterator_hasCurrent(S, it)
          [] kind = "MapIterator" -> MapIterator_hasCurrent(S, it)
          [] kind = "ConcatenateIterator" -> ConcatenateIterator_hasCurrent(S, it)

Dispatch_Iterator_next(S, it) ==
    LET kind == S.its[it].kind
    IN  CASE kind = "IndexableIterator" -> IndexableIterator_next(S, it)
          [] kind = "IndexableReverseIterator" -> IndexableReverseIterator_next(S, it)
          [] kind = "SingleLinkNodeIterator" -> SingleLinkNodeIterator_next(S, it)
          [] kind = "StringIterator" -> StringIterator_next(S, it)
          [] kind = "Lexer" -> Lexer_next(S, it)
          [] kind = "WhereIterator" -> WhereIterator_next(S, it)
          [] kind = "SkipIterator" -> SkipIterator_next(S, it)
          [] kind = "TakeIterator" -> TakeIterator_next(S, it)
          [] kind = "MapIterator" -> MapIterator_next(S, it)
          [] kind = "ConcatenateIterator" -> ConcatenateIterator_next(S, it)

Dispatch_Iterator_getCurrent(S, it) ==
    LET kind == S.its[it].kind
    IN  CASE kind = "IndexableIterator" -> Ret(S, IndexableIterator_getCurrent(S, it))
          [] kind = "IndexableReverseIterator" ->
                 Ret(S, IndexableReverseIterator_getCurrent(S, it))
          [] kind = "SingleLinkNodeIterator" ->
                 Ret(S, SingleLinkNodeIterator_getCurrent(S, it))
          [] kind = "StringIterator" -> Ret(S, StringIterator_getCurrent(S, it))
          [] kind = "Lexer" -> Ret(S, Lexer_getCurrent(S, it))
          [] kind = "WhereIterator" -> IteratorDecorator_getCurrent(S, it)
          [] kind = "SkipIterator" -> SkipIterator_getCurrent(S, it)
          [] kind = "TakeIterator" -> TakeIterator_getCurrent(S, it)
          [] kind = "MapIterator" -> MapIterator_getCurrent(S, it)
          [] kind = "ConcatenateIterator" -> ConcatenateIterator_getCurrent(S, it)

\* ---------------------------------------------------- JavascriptIterator
\* r = [done |-> ..., value |-> ...]
JavascriptIterator_next(S, iterator) ==
    LET d  == IF ~Iterator_hasStarted(S, iterator)
                THEN Iterator_next(S, iterator)
                ELSE Iterator_hasCurrent(S, iterator)
        done == ~d.r
        gc == Iterator_getCurrent(d.S, iterator)
        S1 == IF ~done THEN Iterator_next(gc.S, iterator).S ELSE gc.S
    IN  Ret(S1, [done |-> done, value |-> gc.r])

\* ---------------------------------------------------------- IteratorBase
IteratorBase_takeCurrent(S, it) ==
    LET gc == Iterator_getCurrent(S, it)
    IN  Ret(Iterator_next(gc.S, it).S, gc.r)

\* while (this.next()) ++result;
RECURSIVE IteratorBase_getCountLoop(_, _, _)
IteratorBase_getCountLoop(S, it, result) ==
    LET n == Iterator_next(S, it)
    IN  IF n.r THEN IteratorBase_getCountLoop(n.S, it, result + 1)
        ELSE Ret(n.S, result)

IteratorBase_getCount(S, it) ==
    LET hc == Iterator_hasCurrent(S, it)
    IN  IteratorBase_getCountLoop(hc.S, it, IF hc.r THEN 1 ELSE 0)

\* for (const value of this) result.push(value);
RECURSIVE IteratorBase_toArrayLoop(_, _, _)
IteratorBase_toArrayLoop(S, it, result) ==
    LET n == JavascriptIterator_next(S, it)
    IN  IF n.r.done THEN Ret(n.S, result)
        ELSE IteratorBase_toArrayLoop(n.S, it, Append(result, n.r.value))

IteratorBase_toArray(S, it) == IteratorBase_toArrayLoop(S, it, << >>)

MapIterator_getCount(S, it) ==
    LET S1 == [S EXCEPT !.its[it]._started = TRUE]
    IN  IF S.its[it]._mapFunction # undefinedFunction
          THEN Iterator_getCount(S1, S.its[it]._innerIterator)
          ELSE Ret(S1, 0)

Dispatch_Iterator_getCount(S, it) ==
    IF S.its[it].kind = "MapIterator" THEN MapIterator_getCount(S, it)
    ELSE IteratorBase_getCount(S, it)

IteratorBase_where(S, it, condition) == NewWhereIterator(S, it, condition)
IteratorBase_skip(S, it, toSkip) == NewSkipIterator(S, it, toSkip)
IteratorBase_take(S, it, toTake) == NewTakeIterator(S, it, toTake)
IteratorBase_map(S, it, mapFunction) == NewMapIterator(S, it, mapFunction)

\* An ArrayList created by a view or for an array argument.
ViewArrayList(values) ==
    LET a == NewArrayList(values)
    IN  [kind |-> "ArrayList", owner |-> "view", _data |-> a._data, _count |-> a._count]

\* An Iterator passed as an argument.
IteratorRef(it) == [kind |-> "Iterator", ref |-> it]

\* An array passed as an argument.
Array(values) == [kind |-> "Array", values |-> values]

\* new ArrayList(values).iterate(), the list being reachable from nowhere else.
ArrayIterator(S, values) == NewIndexableIterator(S, ViewArrayList(values))

\* toConcatenate is IteratorRef(it), Array(values) or undefinedObject.
IteratorBase_concatenate(S, it, toConcatenate) ==
    IF toConcatenate = undefinedObject THEN Ret(S, it)
    ELSE IF toConcatenate.kind = "Array"
      THEN LET i == ArrayIterator(S, toConcatenate.values)
           IN  NewConcatenateIterator(i.S, it, i.r)
    ELSE NewConcatenateIterator(S, it, toConcatenate.ref)

\* MapIterator.concatenate does not look at its argument: what is not an
\* Iterator becomes a _second no method can be called on.
MapIterator_concatenate(S, it, toConcatenate) ==
    NewConcatenateIterator(S, it,
        IF toConcatenate # undefinedObject /\ toConcatenate.kind = "Iterator"
          THEN toConcatenate.ref ELSE undefined)

Dispatch_Iterator_concatenate(S, it, toConcatenate) ==
    IF S.its[it].kind = "MapIterator" THEN MapIterator_concatenate(S, it, toConcatenate)
    ELSE IteratorBase_concatenate(S, it, toConcatenate)

\* ============================================================= Iterables
\* The caller's two containers.
TheArrayList == [kind |-> "ArrayList", owner |-> "caller"]
TheSingleLinkList == [kind |-> "SingleLinkList"]

ArrayListFields(S, v) ==
    IF v.owner = "caller" THEN S.arrayList
    ELSE [_data |-> v._data, _count |-> v._count]

IsIndexable(v) ==
    v.kind \in {"ArrayList", "SingleLinkList", "SkipIndexable", "TakeIndexable",
                "MapIndexable"}

\* A count that is not kept at or above 0.
getCountWithSkip_unclamped(S, iterable, toSkip) ==
    Iterable_getCount(S, iterable) - toSkip

getCountWithSkip(S, iterable, toSkip) ==
    LET result == Iterable_getCount(S, iterable)
    IN  IF result <= toSkip THEN 0 ELSE result - toSkip

getCountWithTake(S, iterable, toTake) ==
    LET result == Iterable_getCount(S, iterable)
    IN  IF toTake < result THEN toTake ELSE result

\* this.iterate().getCount(): the iterator is dropped afterwards.
IterableBase_getCount(S, v) ==
    LET i == Iterable_iterate(S, v)
    IN  Iterator_getCount(i.S, i.r).r

Dispatch_Iterable_getCount(S, v) ==
    CASE v.kind = "ArrayList" -> ArrayListFields(S, v)._count
      [] v.kind = "SingleLinkList" -> SingleLinkList_getCount(S)
      [] v.kind \in {"SkipIterable", "SkipIndexable"} ->
             getCountWithSkip(S, v._inner, v._toSkip)
      [] v.kind \in {"TakeIterable", "TakeIndexable"} ->
             getCountWithTake(S, v._inner, v._toTake)
      [] v.kind \in {"MapIterable", "MapIndexable"} -> Iterable_getCount(S, v._inner)
      [] OTHER -> IterableBase_getCount(S, v)

SkipIndexable_get(S, v, index) ==
    IF isDefined(index) /\ 0 <= index
      THEN Indexable_get(S, v._inner, v._toSkip + index)
      ELSE undefined

\* A TakeIndexable that bounds the index by _toTake alone.
TakeIndexable_get_boundedByToTake(S, v, index) ==
    IF isDefined(index) /\ 0 <= index /\ index < v._toTake
      THEN Indexable_get(S, v._inner, index)
      ELSE undefined

TakeIndexable_get(S, v, index) ==
    IF isDefined(index) /\ 0 <= index /\ index < Iterable_getCount(S, v)
      THEN Indexable_get(S, v._inner, index)
      ELSE undefined

MapIndexable_get(S, v, index) ==
    ApplyMapFunction(v._mapFunction, Indexable_get(S, v._inner, index))

Dispatch_Indexable_get(S, v, index) ==
    CASE v.kind = "ArrayList" -> ArrayList_get(ArrayListFields(S, v), index)
      [] v.kind = "SingleLinkList" -> SingleLinkList_get(S, index)
      [] v.kind = "SkipIndexable" -> SkipIndexable_get(S, v, index)
      [] v.kind = "TakeIndexable" -> TakeIndexable_get(S, v, index)
      [] v.kind = "MapIndexable" -> MapIndexable_get(S, v, index)

Dispatch_Iterable_iterate(S, v) ==
    CASE v.kind = "ArrayList" -> NewIndexableIterator(S, v)
      [] v.kind = "SingleLinkList" ->
             NewSingleLinkNodeIterator(S, S.singleLinkList._head)
      [] v.kind = "StringIterable" ->
             NewStringIterator(S, v._text, 0, getLength(v._text))
      [] v.kind = "WhereIterable" ->
             LET i == Iterable_iterate(S, v._inner)
             IN  IteratorBase_where(i.S, i.r, v._condition)
      [] v.kind \in {"SkipIterable", "SkipIndexable"} ->
             LET i == Iterable_iterate(S, v._inner)
             IN  IteratorBase_skip(i.S, i.r, v._toSkip)
      [] v.kind \in {"TakeIterable", "TakeIndexable"} ->
             LET i == Iterable_iterate(S, v._inner)
             IN  IteratorBase_take(i.S, i.r, v._toTake)
      [] v.kind \in {"MapIterable", "MapIndexable"} ->
             LET i == Iterable_iterate(S, v._inner)
             IN  IteratorBase_map(i.S, i.r, v._mapFunction)
      [] v.kind = "ConcatenateIterable" ->
             LET f == Iterable_iterate(S, v._first)
                 g == Iterable_iterate(f.S, v._second)
             IN  Iterator_concatenate(g.S, f.r, IteratorRef(g.r))

Dispatch_Indexable_iterateReverse(S, v) ==
    CASE v.kind \in {"ArrayList", "SingleLinkList"} -> NewIndexableReverseIterator(S, v)
      [] v.kind = "StringIterable" ->
             NewStringIterator(S, v._text, getLength(v._text) - 1, -1)
      [] v.kind = "SkipIndexable" ->
             LET i == Indexable_iterateReverse(S, v._inner)
             IN  IteratorBase_take(i.S, i.r, Iterable_getCount(S, v))
      [] v.kind = "TakeIndexable" ->
             LET i == Indexable_iterateReverse(S, v._inner)
             IN  IteratorBase_skip(i.S, i.r,
                     Iterable_getCount(S, v._inner) - Iterable_getCount(S, v))
      [] v.kind = "MapIndexable" ->
             LET i == Indexable_iterateReverse(S, v._inner)
             IN  IteratorBase_map(i.S, i.r, v._mapFunction)

\* this.iterate().toArray(): the iterator is dropped afterwards.
IterableBase_toArray(S, v) ==
    LET i == Iterable_iterate(S, v)
    IN  Iterator_toArray(i.S, i.r).r

\* ----------------------------------------- the operators of an Iterable
IterableBase_where(v, condition) ==
    IF condition # undefinedFunction
      THEN [kind |-> "WhereIterable", _inner |-> v, _condition |-> condition]
      ELSE v

IterableBase_skip(v, toSkip) ==
    IF IsPositive(toSkip)
      THEN [kind |-> "SkipIterable", _inner |-> v, _toSkip |-> toSkip]
      ELSE v

\* A take() that treats an absent count as skip() does.
IterableBase_take_returnsThis(v, toTake) ==
    IF IsPositive(toTake)
      THEN [kind |-> "TakeIterable", _inner |-> v, _toTake |-> toTake]
      ELSE v

IterableBase_take(v, toTake) ==
    IF IsPositive(toTake)
      THEN [kind |-> "TakeIterable", _inner |-> v, _toTake |-> toTake]
      ELSE ViewArrayList(<< >>)

IterableBase_map(v, mapFunction) ==
    IF mapFunction # undefinedFunction
      THEN [kind |-> "MapIterable", _inner |-> v, _mapFunction |-> mapFunction]
      ELSE ViewArrayList(<< >>)

IndexableBase_skip(v, toSkip) ==
    IF IsPositive(toSkip)
      THEN [kind |-> "SkipIndexable", _inner |-> v, _toSkip |-> toSkip]
      ELSE v

IndexableBase_take(v, toTake) ==
    IF IsPositive(toTake)
      THEN [kind |-> "TakeIndexable", _inner |-> v, _toTake |-> toTake]
      ELSE ViewArrayList(<< >>)

IndexableBase_map(v, mapFunction) ==
    IF mapFunction # undefinedFunction
      THEN [kind |-> "MapIndexable", _inner |-> v, _mapFunction |-> mapFunction]
      ELSE ViewArrayList(<< >>)

Reverse(seq) == [i \in 1 .. Len(seq) |-> seq[Len(seq) + 1 - i]]

\* A ConcatenateIterable that keeps the values of second in reverse order.
NewConcatenateIterable_reversed(S, first, second) ==
    [kind |-> "ConcatenateIterable", _first |-> first,
     _second |-> ViewArrayList(Reverse(IF second.kind = "Array" THEN second.values
                                       ELSE Iterable_toArray(S, second)))]

\* new ConcatenateIterable(first, second): _second = new ArrayList(second),
\* which adds the values of the array, or the values the Iterable yields.
NewConcatenateIterable(S, first, second) ==
    [kind |-> "ConcatenateIterable", _first |-> first,
     _second |-> ViewArrayList(IF second.kind = "Array" THEN second.values
                               ELSE Iterable_toArray(S, second))]

\* toConcatenate is an Iterable, an Array or undefinedObject.
IterableBase_concatenate(S, v, toConcatenate) ==
    IF toConcatenate # undefinedObject
      THEN NewConcatenateIterable(S, v, toConcatenate)
      ELSE v

Iterable_where(v, condition) == IterableBase_where(v, condition)
Iterable_skip(v, toSkip) ==
    IF IsIndexable(v) THEN IndexableBase_skip(v, toSkip) ELSE IterableBase_skip(v, toSkip)
Iterable_take(v, toTake) ==
    IF IsIndexable(v) THEN IndexableBase_take(v, toTake) ELSE IterableBase_take(v, toTake)
Iterable_map(v, mapFunction) ==
    IF IsIndexable(v) THEN IndexableBase_map(v, mapFunction)
    ELSE IterableBase_map(v, mapFunction)

\* An any() that calls next() whether or not there is a current value.
IteratorBase_any_alwaysNext(S, it) == Iterator_next(S, it)

\* any() with no condition: this.hasCurrent() || this.next().  MapIterator
\* has its own copy of the same text.
IteratorBase_any(S, it) ==
    LET hc == Iterator_hasCurrent(S, it)
    IN  IF hc.r THEN Ret(hc.S, TRUE) ELSE Iterator_next(hc.S, it)

\* any(condition):
\* for (const value of this) { if (condition(value)) { result = true; break; } }
RECURSIVE IteratorBase_anyLoop(_, _, _)
IteratorBase_anyLoop(S, it, condition) ==
    LET n == JavascriptIterator_next(S, it)
    IN  IF n.r.done THEN Ret(n.S, FALSE)
        ELSE IF ApplyCondition(condition, n.r.value) THEN Ret(n.S, TRUE)
        ELSE IteratorBase_anyLoop(n.S, it, condition)

IteratorBase_anyCondition(S, it, condition) ==
    IF condition = undefinedFunction THEN IteratorBase_any(S, it)
    ELSE IteratorBase_anyLoop(S, it, condition)

\* this.iterate().any(condition)
IterableBase_any(S, v, condition) ==
    LET i == Iterable_iterate(S, v)
    IN  IteratorBase_anyCondition(i.S, i.r, condition)

ArrayList_any(S, v, condition) ==
    IF condition # undefinedFunction
      THEN IterableBase_any(S, v, condition)
      ELSE Ret(S, ArrayListFields(S, v)._count > 0)

SingleLinkList_any(S, condition) == Ret(S, isDefined(S.singleLinkList._head))

Dispatch_Iterable_any(S, v, condition) ==
    CASE v.kind = "ArrayList" -> ArrayList_any(S, v, condition)
      [] v.kind = "SingleLinkList" -> SingleLinkList_any(S, condition)
      [] OTHER -> IterableBase_any(S, v, condition)

\* ---------------------------------------------- calls through interfaces
Call(S, object, method, args) ==
    CASE method = "hasStarted" -> Dispatch_Iterator_hasStarted(S, object)
      [] method = "hasCurrent" -> Dispatch_Iterator_hasCurrent(S, object)
      [] method = "next" -> Dispatch_Iterator_next(S, object)
      [] method = "getCurrent" -> Dispatch_Iterator_getCurrent(S, object)
      [] method = "getCount" -> Dispatch_Iterator_getCount(S, object)
      [] method = "iterate" -> Dispatch_Iterable_iterate(S, object)
      [] method = "iterateReverse" -> Dispatch_Indexable_iterateReverse(S, object)
      [] method = "Iterable.getCount" -> Dispatch_Iterable_getCount(S, object)
      [] method = "get" -> Dispatch_Indexable_get(S, object, args[1])
      [] method = "toArray" -> IteratorBase_toArray(S, object)
      [] method = "where" -> IteratorBase_where(S, object, args[1])
      [] method = "skip" -> IteratorBase_skip(S, object, args[1])
      [] method = "take" -> IteratorBase_take(S, object, args[1])
      [] method = "map" -> IteratorBase_map(S, object, args[1])
      [] method = "concatenate" -> Dispatch_Iterator_concatenate(S, object, args[1])
      [] method = "Iterable.toArray" -> IterableBase_toArray(S, object)
      [] method = "Iterable.concatenate" -> IterableBase_concatenate(S, object, args[1])
      [] method = "Iterable.any" -> Dispatch_Iterable_any(S, object, args[1])

\* ================================================================ program
\* The values the containers hold and the characters of the texts: the
\* codes of "\n", "\r" and "a".
Values == {10, 13, 97}

RECURSIVE SeqsOfLen(_, _)
SeqsOfLen(set, n) ==
    IF n = 0 THEN {<< >>}
    ELSE {Append(q, x) : q \in SeqsOfLen(set, n - 1), x \in set}

SeqsUpTo(set, n) == UNION {SeqsOfLen(set, k) : k \in 0 .. n}

\* Counts passed to skip() and take(): absent, negative, zero, positive.
Counts == {undefined, -1} \cup (0 .. MaxCount)

\* How many times next() is called on an Iterator before it is handed on:
\* enough to leave it not started, at any value, or exhausted.
Advances == 0 .. MaxLen + 1

VARIABLES
    store,       \* the objects: containers, nodes, iterators
    text,        \* the text the caller lexes and iterates
    root,        \* the Iterator the caller holds (a reference, or undefined)
    fresh,       \* whether root came from iterate(), iterateReverse() or new Lexer()
    nextCalled,  \* whether next() has been called on root
    exhausted,   \* whether a next() on root has returned false
    call,        \* the last whole expression the caller evaluated, with its value
    pair         \* two Iterators the caller obtained from one Iterable

vars == <<store, text, root, fresh, nextCalled, exhausted, call, pair>>

NoCall == [op |-> "none"]
NoPair == [source |-> undefinedObject]

\* new ArrayList(values), new SingleLinkList(values), no Iterator yet.
NewStore(values) ==
    LET L == NewSingleLinkList(values)
    IN  [arrayList |-> NewArrayList(values), nodes |-> L.nodes,
         singleLinkList |-> L.list, its |-> << >>]

Init ==
    \E values \in SeqsUpTo(Values, MaxLen) :
        /\ store = NewStore(values)
        /\ text = values
        /\ root = undefined
        /\ fresh = FALSE
        /\ nextCalled = FALSE
        /\ exhausted = FALSE
        /\ call = NoCall
        /\ pair = NoPair

TheStringIterable == [kind |-> "StringIterable", _text |-> text]

BaseIterables == {TheArrayList, TheSingleLinkList, TheStringIterable}

\* What the caller passes to Iterable.concatenate().
ToConcatenate == {undefinedObject, Array(<< >>), Array(<<97>>), TheArrayList}

\* Every Iterable one operator call away from v.
ViewsOf(v) ==
    {Iterable_where(v, c) : c \in Conditions \cup {undefinedFunction}}
      \cup {Iterable_skip(v, n) : n \in Counts}
      \cup {Iterable_take(v, n) : n \in Counts}
      \cup {Iterable_map(v, f) : f \in MapFunctions \cup {undefinedFunction}}
      \cup {Iterable_concatenate(store, v, w) : w \in ToConcatenate}

\* The containers, the text, their views and the views of their views.
Views == UNION {ViewsOf(v) : v \in BaseIterables}
Iterables == BaseIterables \cup Views \cup UNION {ViewsOf(v) : v \in Views}

CanReverse(v) == IsIndexable(v) \/ v.kind = "StringIterable"

\* ------------------------------------------- the Iterator protocol (Spec)
\* The caller holds a new Iterator as root.
Obtained(n, isFresh) ==
    /\ Len(n.S.its) <= MaxIterators
    /\ store' = n.S
    /\ root' = n.r
    /\ fresh' = isFresh
    /\ nextCalled' = FALSE
    /\ exhausted' = FALSE
    /\ UNCHANGED <<text, call, pair>>

\* root = iterable.iterate()
Iterate ==
    /\ root = undefined
    /\ \E v \in Iterables : Obtained(Iterable_iterate(store, v), TRUE)

\* root = indexable.iterateReverse()
IterateReverse ==
    /\ root = undefined
    /\ \E v \in {w \in Iterables : CanReverse(w)} :
           Obtained(Indexable_iterateReverse(store, v), TRUE)

\* root = new Lexer(text)
CreateLexer ==
    /\ root = undefined
    /\ Obtained(NewLexer(store, text), TRUE)

CanDecorate ==
    /\ root # undefined
    /\ store.its[root].kind # "Lexer"

\* root = root.where(condition)
Where ==
    /\ CanDecorate
    /\ \E c \in Conditions \cup {undefinedFunction} :
           Obtained(Iterator_where(store, root, c), FALSE)

\* root = root.skip(toSkip)
Skip ==
    /\ CanDecorate
    /\ \E n \in Counts : Obtained(Iterator_skip(store, root, n), FALSE)

\* root = root.take(toTake)
Take ==
    /\ CanDecorate
    /\ \E n \in Counts : Obtained(Iterator_take(store, root, n), FALSE)

\* root = root.map(mapFunction)
Map ==
    /\ CanDecorate
    /\ \E f \in MapFunctions \cup {undefinedFunction} :
           Obtained(Iterator_map(store, root, f), FALSE)

\* iterable.iterate() followed by k calls of next().
RECURSIVE Advanced(_, _, _)
Advanced(S, v, k) ==
    IF k = 0 THEN Iterable_iterate(S, v)
    ELSE LET a == Advanced(S, v, k - 1)
         IN  Ret(Iterator_next(a.S, a.r).S, a.r)

\* root = root.concatenate(second), where second is an Iterator of the
\* ArrayList on which the caller has called next() k times.
ConcatenateWith(second) ==
    Obtained(Iterator_concatenate(second.S, root, IteratorRef(second.r)), FALSE)

Concatenate ==
    /\ CanDecorate
    /\ \E k \in Advances : ConcatenateWith(Advanced(store, TheArrayList, k))

\* root.next()
Returned(n) ==
    /\ store' = n.S
    /\ exhausted' = (exhausted \/ ~n.r)
    /\ nextCalled' = TRUE
    /\ UNCHANGED <<text, root, fresh, call, pair>>

Next_ ==
    /\ root # undefined
    /\ Returned(Iterator_next(store, root))

\* root.hasCurrent()
HasCurrent ==
    /\ root # undefined
    /\ store' = Iterator_hasCurrent(store, root).S
    /\ UNCHANGED <<text, root, fresh, nextCalled, exhausted, call, pair>>

\* root.getCurrent()
GetCurrent ==
    /\ root # undefined
    /\ store' = Iterator_getCurrent(store, root).S
    /\ UNCHANGED <<text, root, fresh, nextCalled, exhausted, call, pair>>

Next ==
    \/ Iterate
    \/ IterateReverse
    \/ CreateLexer
    \/ Where
    \/ Skip
    \/ Take
    \/ Map
    \/ Concatenate
    \/ Next_
    \/ HasCurrent
    \/ GetCurrent

Spec == Init /\ [][Next]_vars

\* ------------------------------------------------ claims about the protocol
RootKind == store.its[root].kind

\* getCurrent() of an Iterator of this kind returned no value.
IsAbsent(kind, value) ==
    IF kind = "Lexer" THEN value = undefinedObject ELSE value = undefined

\* n is what next() returned: hasCurrent() right after it returns the same.
HasCurrentAgrees(n) == n.r = Iterator_hasCurrent(n.S, root).r

\* C1: in every reachable state and for every kind of Iterator the caller can
\* hold, the boolean that a call of next() returns equals the value that
\* hasCurrent() returns immediately after that call.
C1_NextReturnsHasCurrent ==
    root # undefined => HasCurrentAgrees(Iterator_next(store, root))

\* A TakeIterator, after a next(), that has no current value although the
\* Iterator it decorates has one: next() reported the decorator's own state.
C1_Witness ==
    /\ root # undefined
    /\ nextCalled
    /\ RootKind = "TakeIterator"
    /\ ~Iterator_hasCurrent(store, root).r
    /\ Iterator_hasCurrent(store, store.its[root]._innerIterator).r

\* n is what a next() after exhaustion returned: false, and no current value.
StaysExhausted(n) ==
    /\ ~n.r
    /\ IsAbsent(RootKind, Iterator_getCurrent(n.S, root).r)

\* C2: once a call of next() has returned false, getCurrent() returns
\* undefined, every later call of next() returns false as well, and
\* getCurrent() returns undefined after each of them.
C2_ExhaustedIsAbsorbing ==
    exhausted =>
        /\ IsAbsent(RootKind, Iterator_getCurrent(store, root).r)
        /\ StaysExhausted(Iterator_next(store, root))

\* A TakeIterator that has returned false from next() while the Iterator it
\* decorates is still positioned at a value.
C2_Witness ==
    /\ exhausted
    /\ RootKind = "TakeIterator"
    /\ Iterator_hasCurrent(store, store.its[root]._innerIterator).r

\* C3: an Iterator that iterate() or iterateReverse() of a container, of the
\* text or of a view has just returned, and a new Lexer, report
\* hasStarted() = false and hasCurrent() = false before any call of next(),
\* and hasStarted() = true once next() has been called, whether or not
\* there is any element.
C3_FreshThenStarted ==
    fresh =>
        IF nextCalled
          THEN Iterator_hasStarted(store, root)
          ELSE ~Iterator_hasStarted(store, root) /\ ~Iterator_hasCurrent(store, root).r

\* An Iterator of a view of the empty SingleLinkList after its first next().
C3_Witness ==
    /\ fresh
    /\ nextCalled
    /\ text = << >>
    /\ RootKind = "WhereIterator"
    /\ store.its[store.its[root]._innerIterator].kind = "SingleLinkNodeIterator"
    /\ Iterator_hasStarted(store, root)

\* ------------------------------------- calls on Iterables (LawsSpec)
\* The caller calls an operator of an Iterable once and keeps what it got in
\* call.  The Iterators such a call creates are dropped when it returns.
Sources == BaseIterables \cup Views
Offsets == 0 .. MaxLen + 1

\* The values an Iterator has when hasCurrent() is called before and after
\* each of k calls of next().
RECURSIVE HasCurrentTrace(_, _, _)
HasCurrentTrace(S, it, k) ==
    LET hc == Iterator_hasCurrent(S, it)
    IN  IF k = 0 THEN <<hc.r>>
        ELSE <<hc.r>> \o HasCurrentTrace(Iterator_next(hc.S, it).S, it, k - 1)

\* iterable.iterate(), then hasCurrent() around MaxLen + 1 calls of next().
IterableHasCurrentTrace(i) == HasCurrentTrace(i.S, i.r, MaxLen + 1)

Called(c) ==
    /\ call = NoCall
    /\ call' = c
    /\ UNCHANGED <<store, text, root, fresh, nextCalled, exhausted, pair>>

\* s.skip(a).take(b).toArray()
CallSkipTake ==
    \E s \in Sources, a \in Offsets, b \in Offsets :
        Called([op |-> "Iterable.skip.take", s |-> s, a |-> a, b |-> b,
                all |-> Iterable_toArray(store, s),
                result |-> Iterable_toArray(store,
                               Iterable_take(Iterable_skip(s, a), b))])

\* view.toArray() and view.getCount() of a view an operator returned.
ViewCalled(op, s, arg, view) ==
    Called([op |-> op, s |-> s, arg |-> arg, view |-> view,
            all |-> Iterable_toArray(store, s),
            n |-> Iterable_getCount(store, s),
            result |-> Iterable_toArray(store, view),
            count |-> Iterable_getCount(store, view),
            hasCurrents |-> IterableHasCurrentTrace(Iterable_iterate(store, view))])

\* s.skip(toSkip)
CallSkip ==
    \E s \in Sources, a \in Counts \cup Offsets :
        ViewCalled("Iterable.skip", s, a, Iterable_skip(s, a))

\* s.take(toTake)
CallTake ==
    \E s \in Sources, b \in Counts \cup Offsets :
        ViewCalled("Iterable.take", s, b, Iterable_take(s, b))

\* s.where(condition)
CallWhere ==
    \E s \in Sources, c \in Conditions \cup {undefinedFunction} :
        ViewCalled("Iterable.where", s, c, Iterable_where(s, c))

\* s.map(mapFunction)
CallMap ==
    \E s \in Sources, f \in MapFunctions \cup {undefinedFunction} :
        ViewCalled("Iterable.map", s, f, Iterable_map(s, f))

\* The Iterables a caller concatenates.
Operands == {TheArrayList, Iterable_skip(TheSingleLinkList, 1)}

\* s.concatenate([]), s.concatenate(a).concatenate(b) and
\* s.concatenate(a.concatenate(b))
CallConcatenate ==
    \E s \in Sources, a \in Operands, b \in ToConcatenate :
        Called([op |-> "Iterable.concatenate", s |-> s, a |-> a, b |-> b,
                all |-> Iterable_toArray(store, s),
                withEmpty |-> Iterable_toArray(store,
                    Iterable_concatenate(store, s, Array(<< >>))),
                left |-> Iterable_toArray(store,
                    Iterable_concatenate(store,
                        Iterable_concatenate(store, s, a), b)),
                right |-> Iterable_toArray(store,
                    Iterable_concatenate(store, s,
                        Iterable_concatenate(store, a, b)))])

\* ------------------------------------- calls on Iterators (LawsSpec)
\* What an Iterator that iterate() returned has left after k calls of next(),
\* the value it is positioned at included.
Remaining(all, k) == IF k = 0 THEN all ELSE SubSeq(all, k, Len(all))

\* decorated is what the operator returned for the Iterator upstream.
IteratorCalled(op, s, k, arg, upstream, decorated) ==
    Called([op |-> op, s |-> s, k |-> k, arg |-> arg,
            remaining |-> Remaining(Iterable_toArray(store, s), k),
            upstreamHasCurrent |-> Iterator_hasCurrent(upstream.S, upstream.r).r,
            hasCurrents |-> HasCurrentTrace(decorated.S, decorated.r, MaxLen + 1),
            result |-> Iterator_toArray(decorated.S, decorated.r).r])

IteratorWhereOf(s, k, c, upstream) ==
    IteratorCalled("Iterator.where", s, k, c, upstream,
                   Iterator_where(upstream.S, upstream.r, c))
IteratorSkipOf(s, k, n, upstream) ==
    IteratorCalled("Iterator.skip", s, k, n, upstream,
                   Iterator_skip(upstream.S, upstream.r, n))
IteratorTakeOf(s, k, n, upstream) ==
    IteratorCalled("Iterator.take", s, k, n, upstream,
                   Iterator_take(upstream.S, upstream.r, n))
IteratorMapOf(s, k, f, upstream) ==
    IteratorCalled("Iterator.map", s, k, f, upstream,
                   Iterator_map(upstream.S, upstream.r, f))

\* s.iterate(), k calls of next(), then where(condition)
CallIteratorWhere ==
    \E s \in BaseIterables, k \in Advances, c \in Conditions \cup {undefinedFunction} :
        IteratorWhereOf(s, k, c, Advanced(store, s, k))

\* s.iterate(), k calls of next(), then skip(toSkip)
CallIteratorSkip ==
    \E s \in BaseIterables, k \in Advances, n \in Counts :
        IteratorSkipOf(s, k, n, Advanced(store, s, k))

\* s.iterate(), k calls of next(), then take(toTake)
CallIteratorTake ==
    \E s \in BaseIterables, k \in Advances, n \in Counts :
        IteratorTakeOf(s, k, n, Advanced(store, s, k))

\* s.iterate(), k calls of next(), then map(mapFunction)
CallIteratorMap ==
    \E s \in BaseIterables, k \in Advances, f \in MapFunctions \cup {undefinedFunction} :
        IteratorMapOf(s, k, f, Advanced(store, s, k))

\* first.concatenate(second) of two Iterators of the ArrayList, after k1
\* calls of first.next() and k2 calls of second.next().
IteratorConcatenateOf(k1, k2, all, second, concatenated) ==
    Called([op |-> "Iterator.concatenate", k1 |-> k1, k2 |-> k2,
            firstRemaining |-> Remaining(all, k1),
            secondRemaining |-> Remaining(all, k2),
            secondHasCurrent |-> Iterator_hasCurrent(second.S, second.r).r,
            result |-> Iterator_toArray(concatenated.S, concatenated.r).r])

SecondAdvanced(k1, k2, all, first, second) ==
    IteratorConcatenateOf(k1, k2, all, second,
        Iterator_concatenate(second.S, first.r, IteratorRef(second.r)))

FirstAdvanced(k1, k2, first) ==
    SecondAdvanced(k1, k2, Iterable_toArray(store, TheArrayList), first,
                   Advanced(first.S, TheArrayList, k2))

CallIteratorConcatenate ==
    /\ call = NoCall
    /\ \E k1 \in Advances, k2 \in Advances :
           FirstAdvanced(k1, k2, Advanced(store, TheArrayList, k1))

LawsNext ==
    \/ CallSkipTake
    \/ CallSkip
    \/ CallTake
    \/ CallWhere
    \/ CallMap
    \/ CallConcatenate
    \/ CallIteratorWhere
    \/ CallIteratorSkip
    \/ CallIteratorTake
    \/ CallIteratorMap
    \/ CallIteratorConcatenate

LawsSpec == Init /\ [][LawsNext]_vars

\* --------------------------------- two Iterators of one Iterable (PairSpec)
\* The caller holds the Iterators of two calls of source.iterate() and
\* counts its calls of next() on each.
PairObtained(source, first, second) ==
    /\ store' = second.S
    /\ pair' = [source |-> source, first |-> first.r, second |-> second.r,
                firstNexts |-> 0, secondNexts |-> 0]
    /\ UNCHANGED <<text, root, fresh, nextCalled, exhausted, call>>

FirstObtained(source, first) ==
    PairObtained(source, first, Iterable_iterate(first.S, source))

\* first = source.iterate(); second = source.iterate()
IterateTwice ==
    /\ pair = NoPair
    /\ \E source \in Sources : FirstObtained(source, Iterable_iterate(store, source))

\* first.next()
NextFirst ==
    /\ pair # NoPair
    /\ pair.firstNexts <= MaxLen
    /\ store' = Iterator_next(store, pair.first).S
    /\ pair' = [pair EXCEPT !.firstNexts = @ + 1]
    /\ UNCHANGED <<text, root, fresh, nextCalled, exhausted, call>>

\* second.next()
NextSecond ==
    /\ pair # NoPair
    /\ pair.secondNexts <= MaxLen
    /\ store' = Iterator_next(store, pair.second).S
    /\ pair' = [pair EXCEPT !.secondNexts = @ + 1]
    /\ UNCHANGED <<text, root, fresh, nextCalled, exhausted, call>>

PairNext ==
    \/ IterateTwice
    \/ NextFirst
    \/ NextSecond

PairSpec == Init /\ [][PairNext]_vars

\* ------------------------------------------- claims about independence
\* The Iterator it is where alone is: alone is the only Iterator of the
\* Iterable, after as many calls of next().
SameAs(it, alone) ==
    /\ Iterator_hasCurrent(store, it).r = Iterator_hasCurrent(alone.S, alone.r).r
    /\ Iterator_getCurrent(store, it).r = Iterator_getCurrent(alone.S, alone.r).r

AdvancedAlone(n) == Advanced([store EXCEPT !.its = << >>], pair.source, n)

\* C6: two Iterators that iterate() of the same Iterable returned (a
\* container, the text or a where/skip/take/map/concatenate view) are
\* independent: however the calls of next() on the two interleave, each has
\* the current value it would have had it been advanced alone.
C6_IteratorsAreIndependent ==
    pair # NoPair =>
        /\ SameAs(pair.first, AdvancedAlone(pair.firstNexts))
        /\ SameAs(pair.second, AdvancedAlone(pair.secondNexts))

\* Two Iterators of a WhereIterable positioned at different values.
C6_Witness ==
    /\ pair # NoPair
    /\ pair.source.kind = "WhereIterable"
    /\ pair.firstNexts = 2
    /\ pair.secondNexts = 1
    /\ Iterator_hasCurrent(store, pair.first).r
    /\ Iterator_hasCurrent(store, pair.second).r
    /\ Iterator_getCurrent(store, pair.first).r
         # Iterator_getCurrent(store, pair.second).r

\* ------------------------------------------ claims about the operators
\* The elements of seq at the positions a <= i < a + b, counted from 0.
Slice(seq, a, b) == SubSeq(seq, a + 1, Min(Len(seq), a + b))

\* The elements of seq that satisfy the condition, in their order.
Filter(seq, condition) ==
    IF condition = undefinedFunction THEN seq
    ELSE SelectSeq(seq, LAMBDA value : ApplyCondition(condition, value))

\* C4: for every Iterable s and all a, b >= 0, s.skip(a).take(b).toArray() is
\* the elements of s.toArray() at the positions a <= i < a + b (none when a
\* is at least the length of s); s.skip(0) yields s and s.take(0) nothing.
C4_SkipTakeIsSlice ==
    /\ call.op = "Iterable.skip.take" =>
           call.result = Slice(call.all, call.a, call.b)
    /\ call.op = "Iterable.skip" /\ call.arg = 0 => call.result = call.all
    /\ call.op = "Iterable.take" /\ call.arg = 0 => call.result = << >>

\* The second of the two values of the SingleLinkList, skipped to and taken.
C4_Witness ==
    /\ call.op = "Iterable.skip.take"
    /\ call.s.kind = "SingleLinkList"
    /\ call.a = 1
    /\ call.b = 1
    /\ Len(call.all) = 2
    /\ call.result = <<call.all[2]>>

\* C5: for every Iterable s with n elements and all a, b >= 0,
\* s.skip(a).getCount() = max(0, n - a) and s.take(b).getCount() = min(b, n),
\* and each is the number of elements that iterating the view yields, for
\* the views of an Iterable and the views of an Indexable.
C5_CountsAgree ==
    /\ call.op = "Iterable.skip" /\ call.arg \in Offsets =>
           /\ call.count = Max(0, call.n - call.arg)
           /\ call.count = Len(call.result)
    /\ call.op = "Iterable.take" /\ call.arg \in Offsets =>
           /\ call.count = Min(call.arg, call.n)
           /\ call.count = Len(call.result)

\* A SkipIterable that skips more elements than its Iterable has.
C5_Witness ==
    /\ call.op = "Iterable.skip"
    /\ call.view.kind = "SkipIterable"
    /\ call.n > 0
    /\ call.arg \in Offsets
    /\ call.arg > call.n
    /\ call.count = 0

\* C7: first.concatenate(second).toArray() is what first had left (the
\* value it was positioned at included) followed by what second had left,
\* whether each of the two was not started, positioned at a value or
\* exhausted when concatenate() was called.
C7_ConcatenateExposesRemaining ==
    call.op = "Iterator.concatenate" =>
        call.result = call.firstRemaining \o call.secondRemaining

\* C8: for Iterables s, a and b, s.concatenate([]).toArray() is s.toArray()
\* and s.concatenate(a).concatenate(b).toArray() is
\* s.concatenate(a.concatenate(b)).toArray().
C8_ConcatenateLaws ==
    call.op = "Iterable.concatenate" =>
        /\ call.withEmpty = call.all
        /\ call.left = call.right

\* The two values of the ArrayList and one more value follow those of s.
C8_Witness ==
    /\ call.op = "Iterable.concatenate"
    /\ call.a = TheArrayList
    /\ call.b = Array(<<97>>)
    /\ Len(call.left) = Len(call.all) + 3
    /\ call.left[Len(call.left)] = 97

\* C9: where(p).toArray() is the elements that satisfy p, in their order,
\* and where(undefined) yields every element, for an Iterable and for an
\* Iterator that was or was not started when where() was called.
C9_WhereFilters ==
    /\ call.op = "Iterable.where" => call.result = Filter(call.all, call.arg)
    /\ call.op = "Iterator.where" =>
           call.result = Filter(call.remaining, call.arg)

\* where(isOdd) of an Iterator positioned at an even value that an odd value
\* follows.
C9_Witness ==
    /\ call.op = "Iterator.where"
    /\ call.arg = "isOdd"
    /\ call.k = 1
    /\ call.upstreamHasCurrent
    /\ call.remaining[1] % 2 = 0
    /\ call.result # << >>

AbsentCounts == {undefined, 0, -1}

\* C10: with an absent argument, on an Iterable and on an Iterator,
\* where(undefined) yields every element, skip(undefined, 0 or a negative
\* count) skips nothing, take(undefined, 0 or a negative count) yields no
\* element, and map(undefined) yields no element and never has a current
\* value.
C10_AbsentArguments ==
    /\ call.op = "Iterable.where" /\ call.arg = undefinedFunction =>
           call.result = call.all
    /\ call.op = "Iterator.where" /\ call.arg = undefinedFunction =>
           call.result = call.remaining
    /\ call.op = "Iterable.skip" /\ call.arg \in AbsentCounts =>
           call.result = call.all
    /\ call.op = "Iterator.skip" /\ call.arg \in AbsentCounts =>
           call.result = call.remaining
    /\ call.op \in {"Iterable.take", "Iterator.take"} /\ call.arg \in AbsentCounts =>
           call.result = << >>
    /\ call.op \in {"Iterable.map", "Iterator.map"} /\ call.arg = undefinedFunction =>
           /\ call.result = << >>
           /\ \A i \in DOMAIN call.hasCurrents : ~call.hasCurrents[i]

\* take(undefined) of the text, which has characters, yields none of them.
C10_Witness ==
    /\ call.op = "Iterable.take"
    /\ call.arg = undefined
    /\ call.s.kind = "StringIterable"
    /\ call.all # << >>
    /\ call.result = << >>

\* ------------------------------- calls that consume an Iterator (ConsumeSpec)
\* The caller advances an Iterator of a container or of the text k times,
\* calls one method that consumes it and keeps what it observed in call.
TakeCounts == Counts \cup Offsets

\* after is what taken.next() returned once taken.toArray() had returned.
TakeObserved(s, k, n, upstream, taken, drained, after) ==
    Called([op |-> "Iterator.take.toArray.next", s |-> s, k |-> k, arg |-> n,
            remaining |-> Remaining(Iterable_toArray(store, s), k),
            result |-> drained.r,
            nextAfter |-> after.r,
            hasCurrentAfter |-> Iterator_hasCurrent(after.S, taken.r).r,
            upstreamHasCurrentAfter |-> Iterator_hasCurrent(after.S, upstream.r).r])

TakeDrained(s, k, n, upstream, taken, drained) ==
    TakeObserved(s, k, n, upstream, taken, drained,
                 Iterator_next(drained.S, taken.r))

TakeCreated(s, k, n, upstream, taken) ==
    TakeDrained(s, k, n, upstream, taken, Iterator_toArray(taken.S, taken.r))

TakeOf(s, k, n, upstream) ==
    TakeCreated(s, k, n, upstream, Iterator_take(upstream.S, upstream.r, n))

\* taken = upstream.take(toTake); taken.toArray(); taken.next();
\* taken.hasCurrent(); upstream.hasCurrent()
CallTakeToArrayNext ==
    /\ call = NoCall
    /\ \E s \in BaseIterables, k \in Advances, n \in TakeCounts :
           TakeOf(s, k, n, Advanced(store, s, k))

\* C11: a take(n) Iterator exposes at most n elements, the value its upstream
\* Iterator is positioned at being the first of them: it exposes the first
\* min(n, remaining) of the remaining elements, and after them hasCurrent()
\* is false and next() returns false, also when upstream has elements left.
C11_TakeBoundsExposure ==
    call.op = "Iterator.take.toArray.next" /\ call.arg \in Nat =>
        /\ call.result = SubSeq(call.remaining, 1,
                                Min(call.arg, Len(call.remaining)))
        /\ ~call.nextAfter
        /\ ~call.hasCurrentAfter

\* take(1) of an Iterator positioned at a value that another follows.
C11_Witness ==
    /\ call.op = "Iterator.take.toArray.next"
    /\ call.arg = 1
    /\ call.k = 1
    /\ Len(call.remaining) = 2
    /\ call.result = <<call.remaining[1]>>
    /\ call.upstreamHasCurrentAfter
    /\ ~call.nextAfter

\* What a caller can observe of the Iterator it: hasStarted(), hasCurrent()
\* and getCurrent().
IteratorState(S, it) ==
    <<Iterator_hasStarted(S, it), Iterator_hasCurrent(S, it).r,
      Iterator_getCurrent(S, it).r>>

SkipConstructed(s, k, n, upstream, skipped) ==
    Called([op |-> "Iterator.skip.constructor", s |-> s, k |-> k, arg |-> n,
            before |-> IteratorState(upstream.S, upstream.r),
            after |-> IteratorState(skipped.S, upstream.r),
            skippedHasStarted |-> Iterator_hasStarted(skipped.S, skipped.r),
            observed |-> IteratorState(
                Iterator_hasCurrent(skipped.S, skipped.r).S, upstream.r)])

SkipOf(s, k, n, upstream) ==
    SkipConstructed(s, k, n, upstream,
                    Iterator_skip(upstream.S, upstream.r, n))

\* skipped = upstream.skip(toSkip); skipped.hasStarted(); then
\* skipped.hasCurrent()
CallSkipConstructor ==
    /\ call = NoCall
    /\ \E s \in BaseIterables, k \in Advances, n \in TakeCounts :
           SkipOf(s, k, n, Advanced(store, s, k))

\* C12: upstream.skip(n) does not advance upstream: as long as hasCurrent(),
\* getCurrent() and next() of the skip Iterator have not been called,
\* hasStarted(), hasCurrent() and getCurrent() of upstream return what they
\* returned before the skip Iterator was constructed.
C12_SkipConstructorLeavesUpstream ==
    call.op = "Iterator.skip.constructor" => call.after = call.before

\* skip(1) of an Iterator positioned at a value: upstream moves on only when
\* hasCurrent() of the skip Iterator is called.
C12_Witness ==
    /\ call.op = "Iterator.skip.constructor"
    /\ call.arg = 1
    /\ call.k = 1
    /\ call.before[2]
    /\ call.after = call.before
    /\ call.observed # call.before

\* ============================================== Lists: getFromEnd, removal
\* index is a number or undefined; count - 1 - undefined is NaN.
FromEndIndex(count, index) == IF isDefined(index) THEN count - 1 - index ELSE NaN

SingleLinkList_lastNodeFrom(nodes, resultNode, searchNode) ==
    LET RECURSIVE Walk(_, _)
        Walk(r, q) == IF isDefined(nodes[q]._next)
                        THEN Walk(nodes[r]._next, nodes[q]._next)
                        ELSE r
    IN  Walk(resultNode, searchNode)

\* A getFromEnd() that trusts _tail to be the last node of the list.
SingleLinkList_getFromEnd_usesTail(S, index) ==
    IF index = 0
      THEN IF isDefined(S.singleLinkList._tail)
             THEN S.nodes[S.singleLinkList._tail]._value
             ELSE undefined
      ELSE SingleLinkList_get(S, FromEndIndex(SingleLinkList_getCount(S), index))

SingleLinkList_getFromEnd(S, index) ==
    LET searchNode == IF isDefined(index) /\ index >= 0
                        THEN SingleLinkList_getNodeFrom(
                                 S.nodes, S.singleLinkList._head, index)
                        ELSE undefined
        resultNode == IF isDefined(searchNode)
                        THEN SingleLinkList_lastNodeFrom(
                                 S.nodes, S.singleLinkList._head, searchNode)
                        ELSE undefined
    IN  IF isDefined(resultNode) THEN S.nodes[resultNode]._value ELSE undefined

\* interface Indexable<T>: getFromEnd(index) of the object's class.
RECURSIVE Indexable_getFromEnd(_, _, _)
Indexable_getFromEnd(S, v, index) ==
    CASE v.kind = "SingleLinkList" -> SingleLinkList_getFromEnd(S, index)
      [] v.kind = "MapIndexable" ->
             ApplyMapFunction(v._mapFunction,
                              Indexable_getFromEnd(S, v._inner, index))
      [] OTHER ->
             Indexable_get(S, v, FromEndIndex(Iterable_getCount(S, v), index))

\* removeAt(index): S is the list afterwards, r the value removed.
ArrayList_removeAtResult(a, index) ==
    Ret(ArrayList_removeAt(a, index), ArrayList_get(a, index))

ArrayList_removeFirst(a) == ArrayList_removeAtResult(a, 0)
ArrayList_removeLast(a) == ArrayList_removeAtResult(a, a._count - 1)

UnlinkAfter(S, previousNode) ==
    Ret([S EXCEPT !.nodes[previousNode]._next =
                      S.nodes[S.nodes[previousNode]._next]._next],
        S.nodes[S.nodes[previousNode]._next]._value)

RemoveHead(S, head) ==
    Ret(IF head = S.singleLinkList._tail
          THEN [S EXCEPT !.singleLinkList = EmptySingleLinkList]
          ELSE [S EXCEPT !.singleLinkList._head = S.nodes[head]._next],
        S.nodes[head]._value)

SingleLinkList_removeAt(S, index) ==
    IF isDefined(index) /\ 0 <= index
      THEN IF index = 0
             THEN IF isDefined(S.singleLinkList._head)
                    THEN RemoveHead(S, S.singleLinkList._head)
                    ELSE Ret(S, undefined)
             ELSE LET previousNode == SingleLinkList_getNode(S, index - 1)
                  IN  IF isDefined(previousNode)
                           /\ isDefined(S.nodes[previousNode]._next)
                        THEN UnlinkAfter(S, previousNode)
                        ELSE Ret(S, undefined)
      ELSE Ret(S, undefined)

SingleLinkList_removeFirst(S) == SingleLinkList_removeAt(S, 0)
\* A removeLast() that removes at the index getCount().
SingleLinkList_removeLast_pastEnd(S) ==
    SingleLinkList_removeAt(S, SingleLinkList_getCount(S))

SingleLinkList_removeLast(S) ==
    SingleLinkList_removeAt(S, SingleLinkList_getCount(S) - 1)

SingleLinkList_clear(S) == [S EXCEPT !.singleLinkList = EmptySingleLinkList]

\* list.add(value) on the SingleLinkList of the store.
SingleLinkList_addTo(S, value) ==
    LET L == SingleLinkList_add([nodes |-> S.nodes, list |-> S.singleLinkList],
                                value)
    IN  [S EXCEPT !.nodes = L.nodes, !.singleLinkList = L.list]

\* ------------------------------------------------ the two lists (ListSpec)
\* Nodes a SingleLinkList may have allocated, and values an ArrayList may
\* hold, before the caller stops adding.
MaxNodes == 3

Lists == {TheArrayList, TheSingleLinkList}

\* Indexes passed to get(), getFromEnd() and removeAt().
Indexes == {undefined, -1} \cup (0 .. MaxNodes)

Allocated(S, list) ==
    IF list.kind = "ArrayList" THEN S.arrayList._count ELSE Len(S.nodes)

List_add(S, list, value) ==
    IF list.kind = "ArrayList"
      THEN [S EXCEPT !.arrayList = ArrayList_add(@, value)]
      ELSE SingleLinkList_addTo(S, value)

ArrayList_removed(S, removed) == Ret([S EXCEPT !.arrayList = removed.S], removed.r)

List_removeAt(S, list, index) ==
    IF list.kind = "ArrayList"
      THEN ArrayList_removed(S, ArrayList_removeAtResult(S.arrayList, index))
      ELSE SingleLinkList_removeAt(S, index)

List_removeFirst(S, list) ==
    IF list.kind = "ArrayList"
      THEN ArrayList_removed(S, ArrayList_removeFirst(S.arrayList))
      ELSE SingleLinkList_removeFirst(S)

List_removeLast(S, list) ==
    IF list.kind = "ArrayList"
      THEN ArrayList_removed(S, ArrayList_removeLast(S.arrayList))
      ELSE SingleLinkList_removeLast(S)

List_clear(S, list) ==
    IF list.kind = "ArrayList"
      THEN [S EXCEPT !.arrayList = ArrayList_clear(@)]
      ELSE SingleLinkList_clear(S)

\* The caller called op on list, the one list it works with: before and after
\* are what toArray() of the list returns before and after the call, result
\* is what the call returned.
ListCalled(op, list, arg, done) ==
    /\ IF call = NoCall THEN TRUE ELSE call.list = list.kind
    /\ store' = done.S
    /\ call' = [op |-> op, list |-> list.kind, arg |-> arg,
                before |-> Iterable_toArray(store, list),
                result |-> done.r,
                after |-> Iterable_toArray(done.S, list)]
    /\ UNCHANGED <<text, root, fresh, nextCalled, exhausted, pair>>

ListAdd ==
    /\ root = undefined
    /\ \E list \in Lists, value \in Values :
           /\ Allocated(store, list) < MaxNodes
           /\ ListCalled("add", list, value,
                         Ret(List_add(store, list, value), undefined))

ListRemoveAt ==
    /\ root = undefined
    /\ \E list \in Lists, index \in Indexes :
           ListCalled("removeAt", list, index, List_removeAt(store, list, index))

ListRemoveFirst ==
    /\ root = undefined
    /\ \E list \in Lists :
           ListCalled("removeFirst", list, undefined, List_removeFirst(store, list))

ListRemoveLast ==
    /\ root = undefined
    /\ \E list \in Lists :
           ListCalled("removeLast", list, undefined, List_removeLast(store, list))

ListClear ==
    /\ root = undefined
    /\ \E list \in Lists :
           ListCalled("clear", list, undefined,
                      Ret(List_clear(store, list), undefined))

ListNext ==
    \/ ListAdd
    \/ ListRemoveAt
    \/ ListRemoveFirst
    \/ ListRemoveLast
    \/ ListClear

ListSpec == Init /\ [][ListNext]_vars

\* Every Indexable one operator call away from v.
IndexableViewsOf(v) ==
    {Iterable_skip(v, n) : n \in Counts}
      \cup {Iterable_take(v, n) : n \in Counts}
      \cup {Iterable_map(v, f) : f \in MapFunctions}

\* The lists, their Indexable views and the views of their views.
IndexableViews == UNION {IndexableViewsOf(v) : v \in Lists}
Indexables == Lists \cup IndexableViews
                  \cup UNION {IndexableViewsOf(v) : v \in IndexableViews}

\* ------------------------------------------------------------------- C13
\* C13: for every Indexable (the two lists and their skip/take/map views) in
\* every state the list operations reach, and every i with
\* 0 <= i < getCount(), get(getCount() - 1 - i) and getFromEnd(i) return the
\* same value.
C13_GetFromEndMirrorsGet ==
    \A v \in Indexables :
        \A i \in 0 .. Iterable_getCount(store, v) - 1 :
            Indexable_get(store, v, Iterable_getCount(store, v) - 1 - i)
                = Indexable_getFromEnd(store, v, i)

\* A SingleLinkList whose last node was removed (so _tail is no longer its
\* last node) still holds two values; getFromEnd(0) is the second of them,
\* also through a map view of a skip view.
C13_Witness ==
    /\ call.op = "removeLast"
    /\ call.list = "SingleLinkList"
    /\ Len(call.after) = 2
    /\ store.singleLinkList._tail
           # SingleLinkList_getNode(store, 1)
    /\ Indexable_getFromEnd(store, TheSingleLinkList, 0) = call.after[2]
    /\ Indexable_getFromEnd(
           store, Iterable_map(Iterable_skip(TheSingleLinkList, 1), "plusOne"), 0)
         = call.after[2] + 1

\* ------------------------------------------------------------------- C14
OutOfRange(S, v, index) ==
    ~isDefined(index) \/ index < 0 \/ index >= Iterable_getCount(S, v)

\* C14: get(index) and getFromEnd(index) of every Indexable (the two lists
\* and their skip/take/map views) return undefined whenever index is
\* negative, undefined, or greater than or equal to getCount().
C14_OutOfRangeIsUndefined ==
    \A v \in Indexables :
        \A index \in Indexes :
            OutOfRange(store, v, index) =>
                /\ Indexable_get(store, v, index) = undefined
                /\ Indexable_getFromEnd(store, v, index) = undefined

\* The same statement for the Indexables that apply no map function.
C14_UnmappedOutOfRangeIsUndefined ==
    \A v \in {w \in Lists \cup IndexableViewsOf(TheArrayList)
                      \cup IndexableViewsOf(TheSingleLinkList) :
                  w.kind # "MapIndexable"} :
        \A index \in Indexes :
            OutOfRange(store, v, index) =>
                /\ Indexable_get(store, v, index) = undefined
                /\ Indexable_getFromEnd(store, v, index) = undefined

\* ------------------------------------------------------------------- C15
\* Counts n >= 0 passed to skip() and take(), up to more than a list holds.
ViewCounts == 0 .. MaxNodes

SkipTakeIndexes(S, x, n, i) ==
    /\ i >= 0 =>
           Indexable_get(S, Iterable_skip(x, n), i) = Indexable_get(S, x, n + i)
    /\ Indexable_get(S, Iterable_take(x, n), i)
         = IF 0 <= i /\ i < Min(n, Iterable_getCount(S, x))
             THEN Indexable_get(S, x, i)
             ELSE undefined

\* C15: for an Indexable x with c elements and a count n >= 0,
\* x.skip(n).get(i) equals x.get(n + i) for every i >= 0, and
\* x.take(n).get(i) is x.get(i) when 0 <= i < min(n, c) and undefined
\* otherwise.
C15_SkipTakeIndexes ==
    \A x \in Lists \cup IndexableViews :
        \A n \in ViewCounts, i \in {-1} \cup (0 .. MaxNodes) :
            SkipTakeIndexes(store, x, n, i)

\* A list of three values after a call that changed it: skip(1).get(1) is
\* its third value, take(2).get(1) its second, and take(2).get(2) is
\* undefined although the list has a third value.
C15_Witness ==
    /\ call.op \in {"add", "removeAt"}
    /\ call.after # call.before
    /\ Len(call.after) = 3
    /\ \E x \in Lists :
           /\ x.kind = call.list
           /\ Indexable_get(store, Iterable_skip(x, 1), 1) = call.after[3]
           /\ Indexable_get(store, Iterable_take(x, 2), 1) = call.after[2]
           /\ Indexable_get(store, Iterable_take(x, 2), 2) = undefined
           /\ Indexable_get(store, x, 2) = call.after[3]

\* ------------------------------------------------------------------- C19
\* C19: for both lists (ArrayList and SingleLinkList) holding [x1..xn] with
\* n >= 1, removeFirst() returns x1 and leaves [x2..xn], and removeLast()
\* returns xn and leaves [x1..x(n-1)]; on an empty list both return
\* undefined and leave it empty.
C19_RemoveFirstLast ==
    /\ call.op \in {"removeFirst", "removeLast"} /\ call.before = << >> =>
           call.result = undefined /\ call.after = << >>
    /\ call.op = "removeFirst" /\ call.before # << >> =>
           call.result = Head(call.before) /\ call.after = Tail(call.before)
    /\ call.op = "removeLast" /\ call.before # << >> =>
           /\ call.result = call.before[Len(call.before)]
           /\ call.after = SubSeq(call.before, 1, Len(call.before) - 1)

\* removeLast() on a SingleLinkList of three values, the last of which
\* differs from the first, returned the third and left the first two.
C19_Witness ==
    /\ call.op = "removeLast"
    /\ call.list = "SingleLinkList"
    /\ Len(call.before) = 3
    /\ call.before[3] # call.before[1]
    /\ call.result = call.before[3]
    /\ call.after = <<call.before[1], call.before[2]>>

\* ============================================ Iterable.takeLast, endsWith
\* A takeLast() that takes from the front.
IterableBase_takeLast_fromFront(S, v, toTake) == Iterable_take(v, toTake)

IterableBase_takeLast(S, v, toTake) ==
    IF ~isDefined(toTake) \/ toTake = 0 \/ toTake < 0
      THEN ViewArrayList(<< >>)
      ELSE IF Iterable_getCount(S, v) <= toTake
             THEN v
             ELSE Iterable_skip(v, Iterable_getCount(S, v) - toTake)

\* The loop of endsWith(): both Iterators are advanced, then compared.
RECURSIVE IterableBase_endsWith_loop(_, _, _)

IterableBase_endsWith_body(S, thisLastValuesIterator, valuesIterator) ==
    IF Iterator_getCurrent(S, thisLastValuesIterator).r
           # Iterator_getCurrent(S, valuesIterator).r
      THEN FALSE
      ELSE IterableBase_endsWith_loop(S, thisLastValuesIterator, valuesIterator)

IterableBase_endsWith_condition(thisLastValuesIterator, valuesIterator,
                                thisNext, valuesNext, hasCurrent) ==
    IF thisNext = valuesNext /\ hasCurrent.r
      THEN IterableBase_endsWith_body(hasCurrent.S, thisLastValuesIterator,
                                      valuesIterator)
      ELSE TRUE

IterableBase_endsWith_nexts(thisLastValuesIterator, valuesIterator,
                            thisNext, valuesNext) ==
    IterableBase_endsWith_condition(
        thisLastValuesIterator, valuesIterator, thisNext, valuesNext.r,
        IF thisNext = valuesNext.r
          THEN Iterator_hasCurrent(valuesNext.S, thisLastValuesIterator)
          ELSE Ret(valuesNext.S, FALSE))

IterableBase_endsWith_next(thisLastValuesIterator, valuesIterator, thisNext) ==
    IterableBase_endsWith_nexts(thisLastValuesIterator, valuesIterator,
                                thisNext.r,
                                Iterator_next(thisNext.S, valuesIterator))

IterableBase_endsWith_loop(S, thisLastValuesIterator, valuesIterator) ==
    IterableBase_endsWith_next(thisLastValuesIterator, valuesIterator,
                               Iterator_next(S, thisLastValuesIterator))

IterableBase_endsWith_iterators(thisLastValuesIterator, valuesIterator) ==
    IterableBase_endsWith_loop(valuesIterator.S, thisLastValuesIterator,
                               valuesIterator.r)

IterableBase_endsWith_compare(v, values, thisLastValuesIterator) ==
    IterableBase_endsWith_iterators(
        thisLastValuesIterator.r,
        Iterable_iterate(thisLastValuesIterator.S, values))

IterableBase_endsWith(S, v, values) ==
    IF values = undefinedObject THEN FALSE
    ELSE IF Iterable_getCount(S, values) = 0 THEN FALSE
    ELSE IF Iterable_getCount(S, v) < Iterable_getCount(S, values) THEN FALSE
    ELSE IterableBase_endsWith_compare(
             v, values,
             Iterable_iterate(
                 S, IterableBase_takeLast(S, v, Iterable_getCount(S, values))))

\* What the caller passes to endsWith(): nothing, a list of its own, or one
\* of the Iterables at hand.
EndsWithValues ==
    {undefinedObject}
      \cup {ViewArrayList(q) : q \in SeqsUpTo(Values, MaxLen + 1)}
      \cup Sources

EndsWithObserved(self, values) ==
    Called([op |-> "endsWith",
            self |-> Iterable_toArray(store, self),
            absent |-> (values = undefinedObject),
            values |-> IF values = undefinedObject THEN << >>
                       ELSE Iterable_toArray(store, values),
            result |-> IterableBase_endsWith(store, self, values)])

\* self.endsWith(values)
CallEndsWith ==
    /\ call = NoCall
    /\ \E self \in Sources, values \in EndsWithValues :
           EndsWithObserved(self, values)

\* ------------------------------------------------------------------- C16
\* C16: self.endsWith(values) is false when values is absent, empty, or
\* longer than self; otherwise it is true exactly when the last
\* count(values) elements of self equal values position by position.
C16_EndsWith ==
    call.op = "endsWith" =>
        call.result =
            (/\ ~call.absent
             /\ call.values # << >>
             /\ Len(call.values) <= Len(call.self)
             /\ SubSeq(call.self, Len(call.self) - Len(call.values) + 1,
                       Len(call.self)) = call.values)

\* endsWith() answered true for fewer values than self has, and false for
\* values that differ from the end of self in their first position only.
C16_Witness ==
    /\ call.op = "endsWith"
    /\ Len(call.self) = 2
    /\ \/ call.result /\ Len(call.values) = 1
       \/ /\ ~call.result
          /\ Len(call.values) = 2
          /\ call.values[2] = call.self[2]

\* ============================================= Iterator.getCount, any
\* The operators that decorate an Iterator, and "none" for the Iterator alone.
Decorators == {"none", "where", "skip", "take", "map"}

DecoratorArguments(decorator) ==
    CASE decorator = "none" -> {undefined}
      [] decorator = "where" -> Conditions \cup {undefinedFunction}
      [] decorator = "map" -> MapFunctions \cup {undefinedFunction}
      [] OTHER -> Counts

\* upstream, or what upstream.where/skip/take/map(arg) returns.
Decorated(upstream, decorator, arg) ==
    CASE decorator = "none" -> upstream
      [] decorator = "where" -> Iterator_where(upstream.S, upstream.r, arg)
      [] decorator = "skip" -> Iterator_skip(upstream.S, upstream.r, arg)
      [] decorator = "take" -> Iterator_take(upstream.S, upstream.r, arg)
      [] decorator = "map" -> Iterator_map(upstream.S, upstream.r, arg)

\* The values left to an Iterator that decorates one with remaining left.
DecoratedRemaining(remaining, decorator, arg) ==
    CASE decorator = "none" -> remaining
      [] decorator = "where" -> Filter(remaining, arg)
      [] decorator = "skip" ->
             IF IsPositive(arg) THEN Slice(remaining, arg, Len(remaining))
             ELSE remaining
      [] decorator = "take" ->
             IF IsPositive(arg) THEN Slice(remaining, 0, arg) ELSE << >>
      [] decorator = "map" ->
             IF arg = undefinedFunction THEN << >>
             ELSE [i \in 1 .. Len(remaining) |-> ApplyMapFunction(arg, remaining[i])]

GetCountObserved(s, k, decorator, arg, it, counted) ==
    Called([op |-> "Iterator.getCount", s |-> s, k |-> k,
            decorator |-> decorator,
            count |-> IF decorator \in {"skip", "take"} THEN arg ELSE undefined,
            function |-> IF decorator \in {"where", "map"} THEN arg
                         ELSE undefinedFunction,
            remaining |-> DecoratedRemaining(
                              Remaining(Iterable_toArray(store, s), k),
                              decorator, arg),
            result |-> counted.r,
            hasStartedAfter |-> Iterator_hasStarted(counted.S, it),
            hasCurrentAfter |-> Iterator_hasCurrent(counted.S, it).r,
            nextAfter |-> Iterator_next(counted.S, it).r])

GetCountOf(s, k, decorator, arg, decorated) ==
    GetCountObserved(s, k, decorator, arg, decorated.r,
                     Iterator_getCount(decorated.S, decorated.r))

\* s.iterate(), k calls of next(), a decorator or none, then getCount()
CallIteratorGetCount ==
    /\ call = NoCall
    /\ \E s \in BaseIterables, k \in Advances, decorator \in Decorators :
           \E arg \in DecoratorArguments(decorator) :
               GetCountOf(s, k, decorator, arg,
                          Decorated(Advanced(store, s, k), decorator, arg))

\* ------------------------------------------------------------------- C17
\* C17: getCount() on an Iterator returns the number of remaining elements
\* including the current one (for a not-started Iterator: all elements), and
\* leaves the Iterator exhausted with hasStarted() = true and
\* hasCurrent() = false.
C17_GetCountDrains ==
    call.op = "Iterator.getCount" =>
        /\ call.result = Len(call.remaining)
        /\ call.hasStartedAfter
        /\ ~call.hasCurrentAfter
        /\ ~call.nextAfter

\* ------------------------------------------------------------------- any
AnyObserved(s, k, decorator, arg, it, before, answered) ==
    Called([op |-> "Iterator.any", s |-> s, k |-> k,
            decorator |-> decorator,
            count |-> IF decorator \in {"skip", "take"} THEN arg ELSE undefined,
            function |-> IF decorator \in {"where", "map"} THEN arg
                         ELSE undefinedFunction,
            remaining |-> DecoratedRemaining(
                              Remaining(Iterable_toArray(store, s), k),
                              decorator, arg),
            before |-> before,
            result |-> answered.r,
            after |-> IteratorState(answered.S, it),
            drained |-> Iterator_toArray(answered.S, it).r])

AnyOf(s, k, decorator, arg, decorated) ==
    AnyObserved(s, k, decorator, arg, decorated.r,
                IteratorState(decorated.S, decorated.r),
                IteratorBase_any(decorated.S, decorated.r))

\* s.iterate(), k calls of next(), a decorator or none, then any()
CallIteratorAny ==
    /\ call = NoCall
    /\ \E s \in BaseIterables, k \in Advances, decorator \in Decorators :
           \E arg \in DecoratorArguments(decorator) :
               AnyOf(s, k, decorator, arg,
                     Decorated(Advanced(store, s, k), decorator, arg))

\* ------------------------------------------------------------------- C18
\* C18: any() without a predicate returns true exactly when the Iterator is
\* positioned at a value or its next advance reaches one; it advances the
\* Iterator at most once (afterwards the Iterator is at the first of the
\* values it had left, and none of them is lost); and it does not move an
\* Iterator that is already positioned at a value.
C18_AnyAdvancesAtMostOnce ==
    call.op = "Iterator.any" =>
        /\ call.result = (call.remaining # << >>)
        /\ call.drained = call.remaining
        /\ call.remaining # << >> =>
               call.after[2] /\ call.after[3] = Head(call.remaining)
        /\ call.before[2] => call.after = call.before

\* any() advanced a not-started Iterator with two values to the first of
\* them; any() left an Iterator alone that was at the second of two values.
C18_Witness ==
    /\ call.op = "Iterator.any"
    /\ call.decorator = "none"
    /\ call.result
    /\ \/ /\ call.k = 0
          /\ ~call.before[1]
          /\ Len(call.remaining) = 2
          /\ call.after = <<TRUE, TRUE, call.remaining[1]>>
       \/ /\ call.k = 2
          /\ call.before[2]
          /\ Len(call.remaining) = 1
          /\ call.after = call.before

\* ================================================================== Map
\* A Map is its field _pairs, an ArrayList of pairs [key, value].
EmptyMap == [_pairs |-> EmptyArrayList]

\* for (const searchValue of this): the comparer of Map.remove compares keys.
RECURSIVE IndexableBase_indexOf(_, _, _)
IndexableBase_indexOf(a, key, searchIndex) ==
    IF searchIndex >= a._count THEN undefined
    ELSE IF a._data[searchIndex + 1].key = key THEN searchIndex
    ELSE IndexableBase_indexOf(a, key, searchIndex + 1)

ArrayList_remove(a, key) ==
    LET removeIndex == IndexableBase_indexOf(a, key, 0)
    IN  IF isDefined(removeIndex) THEN ArrayList_removeAt(a, removeIndex) ELSE a

Map_remove(m, key) == [m EXCEPT !._pairs = ArrayList_remove(@, key)]

\* A Map that adds without removing the entry the key has.
Map_add_keepsEntry(m, key, value) ==
    [m EXCEPT !._pairs = ArrayList_add(@, [key |-> key, value |-> value])]

\* A Map that overwrites the value of the entry the key has, where it is.
Map_add_inPlace(m, key, value) ==
    LET index == IndexableBase_indexOf(m._pairs, key, 0)
    IN  IF isDefined(index)
          THEN [m EXCEPT !._pairs._data[index + 1] = [key |-> key, value |-> value]]
          ELSE [m EXCEPT !._pairs = ArrayList_add(@, [key |-> key, value |-> value])]

Map_add(m, key, value) ==
    [m EXCEPT !._pairs = ArrayList_add(Map_remove(m, key)._pairs,
                                       [key |-> key, value |-> value])]

\* this._pairs.first((pair) => pair.key === key): the first pair that the
\* Iterator of _pairs reaches and that has the key.
Map_get(m, key) ==
    LET index == IndexableBase_indexOf(m._pairs, key, 0)
    IN  IF isDefined(index) THEN ArrayList_get(m._pairs, index).value
        ELSE undefined

Map_getCount(m) == m._pairs._count

\* ------------------------------------------------------- the Map (MapSpec)
Keys == {"hello", "a", "b"}
MapValues == {5, 6}

\* No key has been added.
NoEntries == [key \in Keys |-> undefined]

\* After new Map(): the store holds the Map and nothing else; call keeps,
\* for every key, the value of the last add() that no remove() followed.
MapInit ==
    /\ store = [arrayList |-> EmptyArrayList, nodes |-> << >>,
                singleLinkList |-> EmptySingleLinkList, its |-> << >>,
                map |-> EmptyMap]
    /\ call = [op |-> "new Map", key |-> "", previous |-> undefined,
               added |-> NoEntries]
    /\ text = << >>
    /\ root = undefined
    /\ fresh = FALSE
    /\ nextCalled = FALSE
    /\ exhausted = FALSE
    /\ pair = NoPair

MapCalled(op, key, value, map) ==
    /\ store' = [store EXCEPT !.map = map]
    /\ call' = [op |-> op, key |-> key, previous |-> call.added[key],
                added |-> [call.added EXCEPT ![key] = value]]
    /\ UNCHANGED <<text, root, fresh, nextCalled, exhausted, pair>>

\* map.add(key, value)
MapAdd ==
    /\ root = undefined
    /\ \E key \in Keys, value \in MapValues :
           MapCalled("Map.add", key, value, Map_add(store.map, key, value))

\* map.remove(key)
MapRemove ==
    /\ root = undefined
    /\ \E key \in Keys :
           MapCalled("Map.remove", key, undefined, Map_remove(store.map, key))

MapNext ==
    \/ MapAdd
    \/ MapRemove

MapSpec == MapInit /\ [][MapNext]_vars

\* ------------------------------------------------------------------- C20
\* C20: after any sequence of Map.add calls (and calls of remove), get(k)
\* returns the value passed to the most recent add(k, .) and getCount()
\* equals the number of distinct keys added (and not removed since);
\* repeated adds of one key never increase the count.
C20_MapLastWriteWins ==
    /\ \A key \in Keys : Map_get(store.map, key) = call.added[key]
    /\ Map_getCount(store.map)
         = Cardinality({key \in Keys : isDefined(call.added[key])})

\* The last call added a key that had another value; two keys are in the
\* Map, and get() of the key returns the new value.
C20_Witness ==
    /\ call.op = "Map.add"
    /\ isDefined(call.previous)
    /\ call.previous # call.added[call.key]
    /\ Map_get(store.map, call.key) = call.added[call.key]
    /\ Map_getCount(store.map) = 2

\* ------------------------------------------------------------------- C21
\* What iterate() of the Map yields: the pairs of _pairs in their order.
Map_toArray(m) == SubSeq(m._pairs._data, 1, m._pairs._count)

WithoutKey(pairs, key) == SelectSeq(pairs, LAMBDA p : p.key # key)

\* C21: Map.add(k, v) for a key that is already present moves that key to the
\* end of the iteration order: iterate() afterwards yields all other pairs in
\* their previous relative order followed by (k, v).
C21_AddMovesKeyToEnd ==
    [][call'.op = "Map.add" /\ isDefined(call'.previous) =>
           Map_toArray(store'.map)
             = Append(WithoutKey(Map_toArray(store.map), call'.key),
                      [key |-> call'.key, value |-> call'.added[call'.key]])]_vars

\* The last call added a key that was present: three pairs are in the Map,
\* the key is in the last of them, with the value added.
C21_Witness ==
    /\ call.op = "Map.add"
    /\ isDefined(call.previous)
    /\ Map_getCount(store.map) = 3
    /\ Map_toArray(store.map)[3]
         = [key |-> call.key, value |-> call.added[call.key]]
    /\ Map_toArray(store.map)[1].key # call.key
    /\ Map_toArray(store.map)[2].key # call.key

\* ================================================================ Stack
\* while (this.next()) result = this.getCurrent();
RECURSIVE IteratorBase_lastLoop(_, _, _)
IteratorBase_lastLoop(S, it, result) ==
    LET n == Iterator_next(S, it)
    IN  IF n.r THEN IteratorBase_lastLoop(n.S, it, Iterator_getCurrent(n.S, it).r)
        ELSE Ret(n.S, result)

IteratorBase_lastFrom(it, hc) ==
    IteratorBase_lastLoop(hc.S, it,
                          IF hc.r THEN Iterator_getCurrent(hc.S, it).r
                          ELSE undefined)

\* last() with no condition
IteratorBase_last(S, it) ==
    IteratorBase_lastFrom(
        it,
        Iterator_hasCurrent(IF Iterator_hasStarted(S, it) THEN S
                            ELSE Iterator_next(S, it).S, it))

\* The ArrayList a that an adapter keeps in its field _values, as an object.
ValuesOf(a) ==
    [kind |-> "ArrayList", owner |-> "view", _data |-> a._data, _count |-> a._count]

\* this._values.last()
ArrayList_last(S, a) ==
    LET i == Iterable_iterate(S, ValuesOf(a))
    IN  IteratorBase_last(i.S, i.r).r

\* A Stack is its field _values, an ArrayList.
EmptyStack == [_values |-> EmptyArrayList]

Stack_getCount(stack) == stack._values._count

Stack_push(stack, value) == [stack EXCEPT !._values = ArrayList_add(@, value)]

\* A pop() that removes from the bottom of the Stack.
Stack_pop_first(stack) ==
    LET removed == ArrayList_removeFirst(stack._values)
    IN  Ret([stack EXCEPT !._values = removed.S], removed.r)

\* S is the Stack afterwards, r the value popped.
Stack_pop(stack) ==
    LET removed == ArrayList_removeLast(stack._values)
    IN  Ret([stack EXCEPT !._values = removed.S], removed.r)

Stack_peek(S, stack) == ArrayList_last(S, stack._values)

\* ---------------------------------------------------- the Stack (StackSpec)
\* After new Stack(): the store holds the Stack and nothing else; call keeps
\* the values pushed and not yet popped, oldest first, before and after the
\* last call, and what the call returned.
StackInit ==
    /\ store = [arrayList |-> EmptyArrayList, nodes |-> << >>,
                singleLinkList |-> EmptySingleLinkList, its |-> << >>,
                stack |-> EmptyStack]
    /\ call = [op |-> "new Stack", before |-> << >>, pushed |-> << >>,
               result |-> undefined]
    /\ text = << >>
    /\ root = undefined
    /\ fresh = FALSE
    /\ nextCalled = FALSE
    /\ exhausted = FALSE
    /\ pair = NoPair

StackCalled(op, pushed, stack, result) ==
    /\ store' = [store EXCEPT !.stack = stack]
    /\ call' = [op |-> op, before |-> call.pushed, pushed |-> pushed,
                result |-> result]
    /\ UNCHANGED <<text, root, fresh, nextCalled, exhausted, pair>>

Front(seq) == SubSeq(seq, 1, Len(seq) - 1)

\* stack.push(value)
StackPush ==
    /\ Stack_getCount(store.stack) < MaxNodes
    /\ \E value \in Values :
           StackCalled("push", Append(call.pushed, value),
                       Stack_push(store.stack, value), undefined)

StackPopped(popped) ==
    StackCalled("pop", Front(call.pushed), popped.S, popped.r)

\* stack.pop()
StackPop ==
    /\ root = undefined
    /\ StackPopped(Stack_pop(store.stack))

\* stack.peek()
StackPeek ==
    /\ root = undefined
    /\ StackCalled("peek", call.pushed, store.stack,
                   Stack_peek(store, store.stack))

StackNext ==
    \/ StackPush
    \/ StackPop
    \/ StackPeek

StackSpec == StackInit /\ [][StackNext]_vars

\* ------------------------------------------------------------------- C22
\* C22: Stack is LIFO: after any sequence of push/pop, pop() removes and
\* returns the most recently pushed value not yet popped, peek() returns that
\* same value without removing it, and on an empty stack pop() and peek()
\* return undefined and leave the count at 0.
C22_StackIsLifo ==
    /\ Stack_getCount(store.stack) = Len(call.pushed)
    /\ call.op \in {"pop", "peek"} =>
           call.result = IF call.before = << >> THEN undefined
                         ELSE call.before[Len(call.before)]
    /\ call.op = "pop" => call.pushed = Front(call.before)
    /\ call.op = "peek" => call.pushed = call.before

\* pop() returned the third of three values pushed, which differs from the
\* first; the two pushed before it are left.
C22_Witness ==
    /\ call.op = "pop"
    /\ Len(call.before) = 3
    /\ call.before[3] # call.before[1]
    /\ call.result = call.before[3]
    /\ Stack_getCount(store.stack) = 2
    /\ Stack_peek(store, store.stack) = call.before[2]

\* ================================================================ Queue
\* A Queue is its field _values, an ArrayList.
EmptyQueue == [_values |-> EmptyArrayList]

Queue_getCount(queue) == queue._values._count

Queue_enqueue(queue, value) == [queue EXCEPT !._values = ArrayList_add(@, value)]

\* A dequeue() that takes the value enqueued last.
Queue_dequeue_last(queue) ==
    LET removed == ArrayList_removeLast(queue._values)
    IN  Ret([queue EXCEPT !._values = removed.S], removed.r)

\* S is the Queue afterwards, r the value dequeued.
Queue_dequeue(queue) ==
    LET removed == ArrayList_removeFirst(queue._values)
    IN  Ret([queue EXCEPT !._values = removed.S], removed.r)

\* ---------------------------------------------------- the Queue (QueueSpec)
\* After new Queue(): the store holds the Queue and nothing else; call keeps
\* the values enqueued and not yet dequeued, oldest first, before and after
\* the last call, and what the call returned.
QueueInit ==
    /\ store = [arrayList |-> EmptyArrayList, nodes |-> << >>,
                singleLinkList |-> EmptySingleLinkList, its |-> << >>,
                queue |-> EmptyQueue]
    /\ call = [op |-> "new Queue", before |-> << >>, enqueued |-> << >>,
               result |-> undefined]
    /\ text = << >>
    /\ root = undefined
    /\ fresh = FALSE
    /\ nextCalled = FALSE
    /\ exhausted = FALSE
    /\ pair = NoPair

QueueCalled(op, enqueued, queue, result) ==
    /\ store' = [store EXCEPT !.queue = queue]
    /\ call' = [op |-> op, before |-> call.enqueued, enqueued |-> enqueued,
                result |-> result]
    /\ UNCHANGED <<text, root, fresh, nextCalled, exhausted, pair>>

\* queue.enqueue(value)
QueueEnqueue ==
    /\ Queue_getCount(store.queue) < MaxNodes
    /\ \E value \in Values :
           QueueCalled("enqueue", Append(call.enqueued, value),
                       Queue_enqueue(store.queue, value), undefined)

QueueDequeued(dequeued) ==
    QueueCalled("dequeue",
                IF call.enqueued = << >> THEN << >> ELSE Tail(call.enqueued),
                dequeued.S, dequeued.r)

\* queue.dequeue()
QueueDequeue ==
    /\ root = undefined
    /\ QueueDequeued(Queue_dequeue(store.queue))

QueueNext ==
    \/ QueueEnqueue
    \/ QueueDequeue

QueueSpec == QueueInit /\ [][QueueNext]_vars

\* ------------------------------------------------------------------- C23
\* C23: Queue is FIFO: after any sequence of enqueue/dequeue, dequeue()
\* removes and returns the earliest enqueued value not yet dequeued; on an
\* empty queue it returns undefined and leaves the count at 0.
C23_QueueIsFifo ==
    /\ Queue_getCount(store.queue) = Len(call.enqueued)
    /\ call.op = "dequeue" =>
           /\ call.result = IF call.before = << >> THEN undefined
                            ELSE Head(call.before)
           /\ call.enqueued = IF call.before = << >> THEN << >>
                              ELSE Tail(call.before)

\* dequeue() returned the first of three values enqueued, which differs from
\* the third; the two enqueued after it are left.
C23_Witness ==
    /\ call.op = "dequeue"
    /\ Len(call.before) = 3
    /\ call.before[3] # call.before[1]
    /\ call.result = call.before[1]
    /\ Queue_getCount(store.queue) = 2
    /\ Queue_dequeue(store.queue).r = call.before[2]

\* ================================================= the Lexer (LexSpec)
\* The characters of the texts the Lexer is given: "\r", "\n", "a", "1" and
\* "@", which no case of the Lexer recognizes.
LexCharacters == {13, 10, 97, 49, 64}

MaxText == 3

\* Absent text, the empty text and every text of up to MaxText characters.
LexTexts == {undefinedText} \cup SeqsUpTo(LexCharacters, MaxText)

LexerCreated(t, lexer) ==
    /\ text = t
    /\ store = lexer.S
    /\ root = lexer.r
    /\ call = [op |-> "new Lexer", lexes |-> << >>, nexts |-> 0,
               result |-> FALSE]
    /\ fresh = TRUE
    /\ nextCalled = FALSE
    /\ exhausted = FALSE
    /\ pair = NoPair

\* After new Lexer(text): call keeps the Lexes that next() has produced, the
\* number of calls of next() and what the last of them returned.
LexInit == \E t \in LexTexts : LexerCreated(t, NewLexer(NewStore(<< >>), t))

LexerAdvanced(n) ==
    /\ store' = n.S
    /\ call' = [op |-> "Lexer.next",
                lexes |-> IF n.r THEN Append(call.lexes, Iterator_getCurrent(n.S, root).r)
                          ELSE call.lexes,
                nexts |-> call.nexts + 1,
                result |-> n.r]
    /\ fresh' = FALSE
    /\ nextCalled' = TRUE
    /\ exhausted' = (exhausted \/ ~n.r)
    /\ UNCHANGED <<text, root, pair>>

\* lexer.next(), up to two calls more than the text has characters
LexerNext ==
    /\ call.nexts < getLength(text) + 2
    /\ LexerAdvanced(Iterator_next(store, root))

LexNext ==
    \/ LexerNext

LexSpec == LexInit /\ [][LexNext]_vars

\* The texts of the Lexes, one after the other.
RECURSIVE LexTextsOf(_)
LexTextsOf(lexes) ==
    IF lexes = << >> THEN << >>
    ELSE Head(lexes)._text \o LexTextsOf(Tail(lexes))

\* The index in the text of the character at which the i-th Lex begins.
LexPosition(lexes, i) == Len(LexTextsOf(SubSeq(lexes, 1, i - 1)))

\* The text as the characters it has: absent text has none.
TextCharacters == IF text = undefinedText THEN << >> ELSE text

\* ----------------------------------------------------------------- C24
\* What the Lexer emits for the i-th Lex when the character it begins at is
\* position p of the text.
CarriageReturnLex(lexes, i, p) ==
    IF p + 1 < Len(TextCharacters) /\ TextCharacters[p + 2] = 10
      THEN lexes[i] = NewLex(<<13, 10>>, p, "CarriageReturnNewLine")
      ELSE /\ lexes[i] = NewLex(<<13>>, p, "CarriageReturn")
           /\ i < Len(lexes) => /\ lexes[i + 1]._startIndex = p + 1
                                /\ Head(lexes[i + 1]._text) = TextCharacters[p + 2]

LexesAreContiguous(lexes) ==
    \A i \in 1..Len(lexes) :
        /\ lexes[i]._startIndex = IF i = 1 THEN 0
                                  ELSE Lex_getAfterEndIndex(lexes[i - 1])
        /\ lexes[i]._startIndex = LexPosition(lexes, i)

\* C25: the Lexes of successive next() calls tile the text: the first starts
\* at index 0, each later one starts at the afterEndIndex of the one before,
\* and their texts in order are the text read so far, which is the whole
\* text once next() has returned false.
C25_LexesTileText ==
    call.op \in {"new Lexer", "Lexer.next"} =>
        /\ LexesAreContiguous(call.lexes)
        /\ LexTextsOf(call.lexes)
             = SubSeq(TextCharacters, 1, Len(LexTextsOf(call.lexes)))
        /\ (call.op = "Lexer.next" /\ ~call.result)
             => LexTextsOf(call.lexes) = TextCharacters

\* The text "a\r\n" of three characters read to its end in two Lexes, the
\* second of them of two characters.
C25_Witness ==
    /\ call.op = "Lexer.next"
    /\ ~call.result
    /\ text = <<97, 13, 10>>
    /\ Len(call.lexes) = 2
    /\ call.lexes[2]._startIndex = 1
    /\ Lex_getAfterEndIndex(call.lexes[2]) = 3

\* ----------------------------------------------------------------- C26
\* C26: for a text of n characters, absent and empty text included, every
\* next() that returns true yields a Lex of at least one character, no more
\* than n Lexes are produced, and the (n+1)-th call of next() and every call
\* after it return false.
C26_LexerTerminates ==
    call.op \in {"new Lexer", "Lexer.next"} =>
        /\ \A i \in 1..Len(call.lexes) : Lex_getLength(call.lexes[i]) >= 1
        /\ Len(call.lexes) <= Len(TextCharacters)
        /\ call.result => /\ Lexer_hasCurrent(store, root)
                          /\ Iterator_getCurrent(store, root).r
                               = call.lexes[Len(call.lexes)]
        /\ call.nexts > Len(TextCharacters) => /\ ~call.result
                                               /\ ~Lexer_hasCurrent(store, root)

\* "@a1" gives three Lexes of one character, and the fourth next() is false.
C26_Witness ==
    /\ call.op = "Lexer.next"
    /\ text = <<64, 97, 49>>
    /\ call.nexts = 4
    /\ ~call.result
    /\ Len(call.lexes) = 3

\* next() on a Lexer of absent text is false.
C26_AbsentTextWitness ==
    /\ call.op = "Lexer.next"
    /\ text = undefinedText
    /\ call.nexts = 1
    /\ ~call.result
    /\ call.lexes = << >>

\* ----------------------------------------------------------------- C27
\* The i-th Lex is a run of characters of one class that the character of
\* the text after it, if there is one, does not continue.
MaximalRun(lexes, i, isOfClass(_)) ==
    /\ \A k \in 1..Len(lexes[i]._text) : isOfClass(lexes[i]._text[k])
    /\ Lex_getLength(lexes[i]) >= 1
    /\ LexPosition(lexes, i + 1) < Len(TextCharacters)
         => ~isOfClass(TextCharacters[LexPosition(lexes, i + 1) + 1])
    /\ i < Len(lexes) => lexes[i + 1]._type # lexes[i]._type

\* C27: a Letters Lex is a maximal run of letters and a Digits Lex a maximal
\* run of digits: the character of the text after such a Lex, if any, is not
\* of the same class, and the next Lex is not of the same type.
C27_MaximalRuns ==
    call.op \in {"new Lexer", "Lexer.next"} =>
        \A i \in 1..Len(call.lexes) :
            /\ call.lexes[i]._type = "Letters"
                 => MaximalRun(call.lexes, i, isLetter)
            /\ call.lexes[i]._type = "Digits"
                 => MaximalRun(call.lexes, i, isDigit)

\* "aa1" has been read as the letters "aa" and the digit "1".
C27_Witness ==
    /\ call.op = "Lexer.next"
    /\ text = <<97, 97, 49>>
    /\ call.lexes = <<NewLex(<<97, 97>>, 0, "Letters"),
                      NewLex(<<49>>, 2, "Digits")>>

\* ===================================================== Span (SpanSpec)
NewSpan(startIndex, length) == [_startIndex |-> startIndex, _length |-> length]

Span_getStartIndex(span) == span._startIndex

Span_getLength(span) == span._length

Span_getAfterEndIndex(span) == span._startIndex + span._length

\* An endIndex that is one before afterEndIndex whatever the length.
Span_getEndIndex_beforeAfterEnd(span) == Span_getAfterEndIndex(span) - 1

Span_getEndIndex(span) ==
    IF span._length <= 0 THEN span._startIndex
    ELSE Span_getAfterEndIndex(span) - 1

\* The characters of the decimal form of a number, as a template literal
\* writes it: "-" is 45 and the digits are 48 to 57.
RECURSIVE NumberToString(_)
NumberToString(n) ==
    IF n < 0 THEN <<45>> \o NumberToString(0 - n)
    ELSE IF n < 10 THEN <<n + 48>>
    ELSE NumberToString(n \div 10) \o <<(n % 10) + 48>>

\* "[" is 91, "," is 44 and ")" is 41.
Span_toString(span) ==
    <<91>> \o NumberToString(span._startIndex) \o <<44>>
            \o NumberToString(Span_getAfterEndIndex(span)) \o <<41>>

MaxSpan == 4

SpanStartIndexes == 0..MaxSpan

\* The constructor takes any number as length.
SpanLengths == -1..MaxSpan

\* After new Span(startIndex, length).
SpanInit ==
    \E startIndex \in SpanStartIndexes, length \in SpanLengths :
        /\ call = [op |-> "new Span", span |-> NewSpan(startIndex, length),
                   number |-> 0, string |-> << >>]
        /\ store = NewStore(<< >>)
        /\ text = undefinedText
        /\ root = undefined
        /\ fresh = TRUE
        /\ nextCalled = FALSE
        /\ exhausted = FALSE
        /\ pair = NoPair

SpanCalled(op, number, string) ==
    /\ call' = [call EXCEPT !.op = op, !.number = number, !.string = string]
    /\ fresh' = FALSE
    /\ UNCHANGED <<store, text, root, nextCalled, exhausted, pair>>

SpanGetEndIndex ==
    /\ call.op = "new Span"
    /\ SpanCalled("Span.getEndIndex", Span_getEndIndex(call.span), << >>)

SpanGetAfterEndIndex ==
    /\ call.op = "new Span"
    /\ SpanCalled("Span.getAfterEndIndex", Span_getAfterEndIndex(call.span), << >>)

SpanToString ==
    /\ call.op = "new Span"
    /\ SpanCalled("Span.toString", 0, Span_toString(call.span))

SpanNext ==
    \/ SpanGetEndIndex
    \/ SpanGetAfterEndIndex
    \/ SpanToString

SpanSpec == SpanInit /\ [][SpanNext]_vars

C28_NonEmptyWitness ==
    /\ call.op = "Span.getEndIndex"
    /\ call.span = NewSpan(3, 2)
    /\ call.number = 4

\* ----------------------------------------------------------------- C29
\* The string "[startIndex,afterEndIndex)".
SpanText(startIndex, afterEndIndex) ==
    <<91>> \o NumberToString(startIndex) \o <<44>>
            \o NumberToString(afterEndIndex) \o <<41>>

\* C29: for every Span(startIndex, length), length 0 included, getEndIndex()
\* is startIndex + length - 1, so -1 for Span(0, 0), and toString() is
\* "[startIndex,startIndex+length)".
C29_EndIndexIsAfterEndMinusOne ==
    /\ call.op = "Span.getEndIndex" /\ Span_getLength(call.span) >= 0
         => call.number = Span_getStartIndex(call.span)
                            + Span_getLength(call.span) - 1
    /\ call.op = "Span.toString"
         => call.string = SpanText(Span_getStartIndex(call.span),
                                   Span_getStartIndex(call.span)
                                     + Span_getLength(call.span))

\* The part of C29 about toString() alone.
C29_ToString ==
    call.op = "Span.toString"
        => call.string = SpanText(Span_getStartIndex(call.span),
                                  Span_getStartIndex(call.span)
                                    + Span_getLength(call.span))

\* toString() of Span(3, 2) is "[3,5)".
C29_ToStringWitness ==
    /\ call.op = "Span.toString"
    /\ call.span = NewSpan(3, 2)
    /\ call.string = <<91, 51, 44, 53, 41>>

\* ----------------------------------------------------------------- C30
\* C30: on a SingleLinkList in any state that add, removeAt, removeFirst,
\* removeLast and clear reach, add(v) appends at the tail: toArray() after it
\* is toArray() before it followed by v, and getCount() is one more.
C30_AddAppendsAtTail ==
    call.op = "add" /\ call.list = "SingleLinkList" =>
        /\ call.after = Append(call.before, call.arg)
        /\ SingleLinkList_getCount(store) = Len(call.before) + 1

\* The same of an ArrayList, which keeps no tail reference.
C30_ArrayListAddAppends ==
    call.op = "add" /\ call.list = "ArrayList" =>
        /\ call.after = Append(call.before, call.arg)
        /\ store.arrayList._count = Len(call.before) + 1

\* ============================================ ArrayList (ArrayListSpec)
ArrayList_set(a, index, value) ==
    IF isDefined(index) /\ 0 <= index /\ index < a._count
      THEN [a EXCEPT !._data[index + 1] = value]
      ELSE a

\* indexOf(value) with the default comparer, lhs === rhs.
RECURSIVE ArrayList_indexOf(_, _, _)
ArrayList_indexOf(a, value, searchIndex) ==
    IF searchIndex >= a._count THEN undefined
    ELSE IF a._data[searchIndex + 1] = value THEN searchIndex
    ELSE ArrayList_indexOf(a, value, searchIndex + 1)

\* remove(value) with the default comparer.
ArrayList_removeValue(a, value) ==
    LET removeIndex == ArrayList_indexOf(a, value, 0)
    IN  IF isDefined(removeIndex)
          THEN ArrayList_removeAtResult(a, removeIndex)
          ELSE Ret(a, undefined)

\* The same operations on a mathematical list.
ListRemoveIndex(list, index) ==
    IF 0 <= index /\ index < Len(list)
      THEN SubSeq(list, 1, index) \o SubSeq(list, index + 2, Len(list))
      ELSE list

ListSetIndex(list, index, value) ==
    IF 0 <= index /\ index < Len(list)
      THEN [list EXCEPT ![index + 1] = value]
      ELSE list

ListRemoveValue(list, value) ==
    IF \E i \in 1..Len(list) : list[i] = value
      THEN ListRemoveIndex(list,
               (CHOOSE i \in 1..Len(list) :
                    /\ list[i] = value
                    /\ \A j \in 1..(i - 1) : list[j] # value) - 1)
      ELSE list

ArrayList_toArray(a) == SubSeq(a._data, 1, a._count)

\* After new ArrayList(values): call.list is the mathematical list.
ArrayListInit ==
    \E values \in SeqsUpTo(Values, MaxLen) :
        /\ store = NewStore(values)
        /\ call = [op |-> "new ArrayList", list |-> values, index |-> undefined,
                   before |-> << >>, after |-> values, result |-> undefined]
        /\ text = undefinedText
        /\ root = undefined
        /\ fresh = TRUE
        /\ nextCalled = FALSE
        /\ exhausted = FALSE
        /\ pair = NoPair

\* The caller called op: done is the ArrayList and the result of the call,
\* list the mathematical list after the same operation.
ArrayListCalled(op, index, done, list) ==
    /\ store' = [store EXCEPT !.arrayList = done.S]
    /\ call' = [op |-> op, list |-> list, index |-> index,
                before |-> ArrayList_toArray(store.arrayList),
                after |-> ArrayList_toArray(done.S), result |-> done.r]
    /\ UNCHANGED <<text, root, fresh, nextCalled, exhausted, pair>>

ArrayListAdd ==
    /\ store.arrayList._count < MaxNodes
    /\ \E value \in Values :
           ArrayListCalled("add", undefined,
                           Ret(ArrayList_add(store.arrayList, value), undefined),
                           Append(call.list, value))

ArrayListAddAll ==
    /\ store.arrayList._count < MaxNodes
    /\ \E values \in SeqsUpTo(Values, MaxNodes - store.arrayList._count) :
           ArrayListCalled("addAll", undefined,
                           Ret(ArrayList_addAll(store.arrayList, values), undefined),
                           call.list \o values)

ArrayListSet ==
    /\ root = undefined
    /\ \E index \in Indexes, value \in Values :
           ArrayListCalled("set", index,
                           Ret(ArrayList_set(store.arrayList, index, value), undefined),
                           ListSetIndex(call.list, index, value))

ArrayListRemoveAt ==
    /\ root = undefined
    /\ \E index \in Indexes :
           ArrayListCalled("removeAt", index,
                           ArrayList_removeAtResult(store.arrayList, index),
                           ListRemoveIndex(call.list, index))

ArrayListRemove ==
    /\ root = undefined
    /\ \E value \in Values :
           ArrayListCalled("remove", undefined,
                           ArrayList_removeValue(store.arrayList, value),
                           ListRemoveValue(call.list, value))

ArrayListRemoveFirst ==
    /\ root = undefined
    /\ ArrayListCalled("removeFirst", undefined,
                       ArrayList_removeFirst(store.arrayList),
                       ListRemoveIndex(call.list, 0))

ArrayListRemoveLast ==
    /\ root = undefined
    /\ ArrayListCalled("removeLast", undefined,
                       ArrayList_removeLast(store.arrayList),
                       ListRemoveIndex(call.list, Len(call.list) - 1))

ArrayListClear ==
    /\ root = undefined
    /\ ArrayListCalled("clear", undefined,
                       Ret(ArrayList_clear(store.arrayList), undefined), << >>)

ArrayListNext ==
    \/ ArrayListAdd
    \/ ArrayListAddAll
    \/ ArrayListSet
    \/ ArrayListRemoveAt
    \/ ArrayListRemove
    \/ ArrayListRemoveFirst
    \/ ArrayListRemoveLast
    \/ ArrayListClear

ArrayListSpec == ArrayListInit /\ [][ArrayListNext]_vars

\* ----------------------------------------------------------------- C31
\* C31: after any sequence of add, addAll, set, removeAt, remove,
\* removeFirst, removeLast and clear on an ArrayList, toArray() is the
\* mathematical list after the same operations, getCount() is its length,
\* and a removeAt or set with an index out of range leaves the list as it was.
C31_ArrayListRefinesList ==
    /\ Iterable_toArray(store, TheArrayList) = call.list
    /\ Iterable_getCount(store, TheArrayList) = Len(call.list)
    /\ (/\ call.op \in {"removeAt", "set"}
        /\ ~(0 <= call.index /\ call.index < Len(call.before)))
         => /\ call.after = call.before
            /\ call.result = undefined

\* removeAt(0) of [10, 13, 97] has shifted the two values after it.
C31_Witness ==
    /\ call.op = "removeAt"
    /\ call.index = 0
    /\ call.before = <<10, 13, 97>>
    /\ Iterable_toArray(store, TheArrayList) = <<13, 97>>
    /\ Iterable_getCount(store, TheArrayList) = 2

\* removeAt(3) of a list of three values has changed nothing.
C31_OutOfRangeWitness ==
    /\ call.op = "removeAt"
    /\ call.index = 3
    /\ Len(call.before) = 3
    /\ call.after = call.before

\* ----------------------------------------------------------------- C32
\* C32: for every Iterator the caller can hold, decorators built over
\* Iterators in any state included, hasCurrent() = true implies
\* hasStarted() = true.
C32_CurrentImpliesStarted ==
    root # undefined =>
        (Iterator_hasCurrent(store, root).r => Iterator_hasStarted(store, root))

\* The same where the caller has built no ConcatenateIterator.
C32_WithoutConcatenate ==
    (/\ root # undefined
     /\ \A i \in 1..Len(store.its) : store.its[i].kind # "ConcatenateIterator")
      => (Iterator_hasCurrent(store, root).r => Iterator_hasStarted(store, root))

\* ----------------------------------------------------------------- C33
\* C33: whenever a WhereIterator with a defined condition reports
\* hasCurrent() = true, the value getCurrent() returns satisfies the
\* condition, right after its construction over an Iterator positioned at a
\* value that does not satisfy it included.
C33_WhereCurrentSatisfies ==
    (/\ root # undefined
     /\ RootKind = "WhereIterator"
     /\ store.its[root]._condition # undefinedFunction
     /\ Iterator_hasCurrent(store, root).r)
      => ApplyCondition(store.its[root]._condition,
                        Iterator_getCurrent(store, root).r)

\* where(isOdd) just built over an Iterator of the ArrayList [10, 13]: no
\* next() has been called on it and it is positioned at 13.
C33_Witness ==
    /\ root # undefined
    /\ RootKind = "WhereIterator"
    /\ store.its[root]._condition = "isOdd"
    /\ ~fresh
    /\ ~nextCalled
    /\ Iterable_toArray(store, TheArrayList) = <<10, 13>>
    /\ store.its[store.its[root]._innerIterator].kind = "IndexableIterator"
    /\ Iterator_hasCurrent(store, root).r
    /\ Iterator_getCurrent(store, root).r = 13

\* ============================== views of lists that change (ViewSpec)
ViewOperators == {"where", "skip", "take", "map", "concatenate"}

\* list.where(isOdd), list.skip(1), list.take(1), list.map(plusOne) and
\* list.concatenate(second)
ViewBuilt(S, operator, list, second) ==
    CASE operator = "where" -> Iterable_where(list, "isOdd")
      [] operator = "skip" -> Iterable_skip(list, 1)
      [] operator = "take" -> Iterable_take(list, 1)
      [] operator = "map" -> Iterable_map(list, "plusOne")
      [] operator = "concatenate" -> Iterable_concatenate(S, list, second)

\* The same of arrays: what the view of lists with these values yields.
ViewOfArrays(operator, values, secondValues) ==
    CASE operator = "where" -> Filter(values, "isOdd")
      [] operator = "skip" -> Slice(values, 1, Len(values))
      [] operator = "take" -> Slice(values, 0, 1)
      [] operator = "map" ->
             [i \in 1..Len(values) |-> ApplyMapFunction("plusOne", values[i])]
      [] operator = "concatenate" -> values \o secondValues

\* After the lists and a view of list have been built: call keeps the view
\* and the one list the caller goes on to change.
ViewInit ==
    \E values \in SeqsUpTo(Values, MaxLen), operator \in ViewOperators,
       list \in Lists, second \in Lists, changed \in Lists :
        /\ store = NewStore(values)
        /\ call = [op |-> "view", operator |-> operator, list |-> list,
                   second |-> second, changed |-> changed,
                   view |-> ViewBuilt(NewStore(values), operator, list, second),
                   changes |-> 0]
        /\ text = undefinedText
        /\ root = undefined
        /\ fresh = TRUE
        /\ nextCalled = FALSE
        /\ exhausted = FALSE
        /\ pair = NoPair

ViewListChanged(op, S) ==
    /\ store' = S
    /\ call' = [call EXCEPT !.op = op,
                            !.changes = Min(call.changes + 1, MaxNodes)]
    /\ UNCHANGED <<text, root, fresh, nextCalled, exhausted, pair>>

ViewListAdd ==
    /\ Allocated(store, call.changed) < MaxNodes
    /\ \E value \in Values :
           ViewListChanged("add", List_add(store, call.changed, value))

ViewListRemoveFirst ==
    /\ root = undefined
    /\ ViewListChanged("removeFirst", List_removeFirst(store, call.changed).S)

ViewListClear ==
    /\ root = undefined
    /\ ViewListChanged("clear", List_clear(store, call.changed))

ViewNext ==
    \/ ViewListAdd
    \/ ViewListRemoveFirst
    \/ ViewListClear

ViewSpec == ViewInit /\ [][ViewNext]_vars

\* ----------------------------------------------------------------- C34
\* What the view built of the lists as they are now yields.
ViewOfCurrentLists ==
    ViewOfArrays(call.operator, Iterable_toArray(store, call.list),
                 Iterable_toArray(store, call.second))

\* C34: the where, skip, take, map and concatenate views of a list hold no
\* results: after the list, or the second operand of concatenate, has
\* changed, toArray() of the view built before the change is what the view
\* of the lists' current contents yields.
C34_ViewsAreLazy ==
    Iterable_toArray(store, call.view) = ViewOfCurrentLists

\* The same of the views of one list alone.
C34_UnaryViewsAreLazy ==
    call.operator # "concatenate" =>
        Iterable_toArray(store, call.view) = ViewOfCurrentLists

\* The same of concatenate() where the first operand alone changes.
C34_ConcatenateFirstIsLazy ==
    (/\ call.operator = "concatenate"
     /\ call.changed = call.list
     /\ call.changed # call.second)
      => Iterable_toArray(store, call.view) = ViewOfCurrentLists

\* list.where(isOdd) built of the empty SingleLinkList yields the 13 that
\* was added afterwards.
C34_UnaryWitness ==
    /\ call.operator = "where"
    /\ call.list = TheSingleLinkList
    /\ call.op = "add"
    /\ call.changes = 1
    /\ Iterable_toArray(store, call.view) = <<13>>

\* ----------------------------------------------------------------- C35
\* view.iterate().toArray() and view.iterateReverse().toArray() of the view
\* that skip(n) or take(n) of the Indexable s returned.
ReverseObserved(s, operator, n, view, reversed) ==
    /\ store' = reversed.S
    /\ call' = [op |-> "Indexable.iterateReverse", s |-> s,
                operator |-> operator, count |-> n,
                inner |-> Iterable_toArray(store, s),
                forward |-> Iterable_toArray(store, view),
                reverse |-> Iterator_toArray(reversed.S, reversed.r).r]
    /\ UNCHANGED <<text, root, fresh, nextCalled, exhausted, pair>>

ReverseOf(s, operator, n, view) ==
    ReverseObserved(s, operator, n, view, Indexable_iterateReverse(store, view))

\* s.skip(n).iterateReverse().toArray() and the same of take(n), s being a
\* list or an Indexable view of a list.
CallIterateReverse ==
    /\ call = NoCall
    /\ \E s \in Indexables, n \in Counts \cup Offsets :
           \/ ReverseOf(s, "skip", n, Iterable_skip(s, n))
           \/ ReverseOf(s, "take", n, Iterable_take(s, n))

\* C35: for the skip(n) and take(n) views of an Indexable,
\* iterateReverse().toArray() is iterate().toArray() in reverse order, for
\* every n, those at and above the count of the Indexable included.
C35_ReverseIsReverseOfForward ==
    call.op = "Indexable.iterateReverse" => call.reverse = Reverse(call.forward)

\* skip(1) of the two values of a list, in reverse: the second value alone.
C35_Witness ==
    /\ call.op = "Indexable.iterateReverse"
    /\ call.operator = "skip"
    /\ call.count = 1
    /\ Len(call.inner) = 2
    /\ call.forward = <<call.inner[2]>>
    /\ call.reverse = <<call.inner[2]>>

\* take(2) of a list of two different values, in reverse.
C35_TakeWitness ==
    /\ call.op = "Indexable.iterateReverse"
    /\ call.operator = "take"
    /\ call.count = 2
    /\ call.forward = <<10, 13>>
    /\ call.reverse = <<13, 10>>

\* skip(n) with n at the count of the list: nothing either way.
C35_SkipAllWitness ==
    /\ call.op = "Indexable.iterateReverse"
    /\ call.operator = "skip"
    /\ call.count = 2
    /\ Len(call.inner) = 2
    /\ call.forward = << >>
    /\ call.reverse = << >>

\* ================= lists that change under live Iterators (LiveSpec)
\* Iterators the caller keeps of the one list it changes, and changes it
\* makes to the list.
MaxLive == 2

MaxChanges == 2

\* After the lists have been built: call.list is the list the caller
\* iterates and changes.
LiveInit ==
    \E values \in SeqsUpTo(Values, MaxLen), list \in Lists :
        /\ store = NewStore(values)
        /\ call = [op |-> "new", list |-> list, changes |-> 0]
        /\ text = undefinedText
        /\ root = undefined
        /\ fresh = TRUE
        /\ nextCalled = FALSE
        /\ exhausted = FALSE
        /\ pair = NoPair

LiveCalled(op, S) ==
    /\ store' = S
    /\ call' = [call EXCEPT !.op = op]
    /\ UNCHANGED <<text, root, fresh, nextCalled, exhausted, pair>>

LiveChanged(op, S) ==
    /\ store' = S
    /\ call' = [call EXCEPT !.op = op, !.changes = @ + 1]
    /\ UNCHANGED <<text, root, fresh, nextCalled, exhausted, pair>>

\* list.iterate()
LiveIterate ==
    /\ Len(store.its) < MaxLive
    /\ LiveCalled("iterate", Iterable_iterate(store, call.list).S)

\* iterator.next() on one of the Iterators
LiveIteratorNext ==
    /\ store.its # << >>
    /\ \E it \in 1..Len(store.its) :
           LiveCalled("next", Iterator_next(store, it).S)

LiveAdd ==
    /\ call.changes < MaxChanges
    /\ Allocated(store, call.list) < MaxNodes
    /\ \E value \in Values :
           LiveChanged("add", List_add(store, call.list, value))

LiveRemoveAt ==
    /\ call.changes < MaxChanges
    /\ \E index \in 0..(MaxNodes - 1) :
           LiveChanged("removeAt", List_removeAt(store, call.list, index).S)

LiveClear ==
    /\ call.changes < MaxChanges
    /\ LiveChanged("clear", List_clear(store, call.list))

LiveNext ==
    \/ LiveIterate
    \/ LiveIteratorNext
    \/ LiveAdd
    \/ LiveRemoveAt
    \/ LiveClear

LiveSpec == LiveInit /\ [][LiveNext]_vars

\* ----------------------------------------------------------------- C36
\* The position of an Iterator of a list: whether it has started, and the
\* index or the node it is at.
Cursor(S, it) ==
    IF S.its[it].kind = "IndexableIterator"
      THEN <<Iterator_hasStarted(S, it), S.its[it]._currentIndex>>
      ELSE <<Iterator_hasStarted(S, it), S.its[it]._currentNode>>

\* What hasCurrent(), getCurrent(), next() and then hasCurrent() and
\* getCurrent() again return on the Iterator it.
LiveObserved(S, it) ==
    <<Iterator_hasCurrent(S, it).r, Iterator_getCurrent(S, it).r,
      Iterator_next(S, it).r,
      IteratorState(Iterator_next(S, it).S, it)>>

\* No call on a live Iterator raises: each returns a boolean, or a value
\* of the list or undefined.
C36_LiveCallsReturn ==
    \A it \in 1..Len(store.its) :
        /\ LiveObserved(store, it)[1] \in BOOLEAN
        /\ LiveObserved(store, it)[2] \in Values \cup {undefined}
        /\ LiveObserved(store, it)[3] \in BOOLEAN
        /\ LiveObserved(store, it)[4][3] \in Values \cup {undefined}

\* C36: after a list has changed under a live Iterator, every hasCurrent(),
\* getCurrent() and next() on the Iterator returns without raising, and what
\* it returns is determined by the current contents of the list and the
\* cursor of the Iterator alone: two Iterators of the list at the same
\* cursor return the same.
C36_LiveResultsFromListAndCursor ==
    /\ C36_LiveCallsReturn
    /\ \A i, j \in 1..Len(store.its) :
           Cursor(store, i) = Cursor(store, j)
               => LiveObserved(store, i) = LiveObserved(store, j)

\* The part of C36 about what the calls return, with the list as it is.
C36_CurrentIsOfList ==
    \A it \in 1..Len(store.its) :
        store.its[it].kind = "SingleLinkNodeIterator"
            => LiveObserved(store, it)[1]
                 = (LiveObserved(store, it)[2] # undefined)

\* ----------------------------------------------------------------- C37
\* drained is what taken.toArray() returned: left is what upstream.toArray()
\* returns after it, the value upstream is positioned at included.
TakeDrainObserved(s, n, upstream, drained) ==
    /\ store' = drained.S
    /\ call' = [op |-> "Iterator.take.drain", s |-> s, count |-> n,
                all |-> Iterable_toArray(store, s),
                result |-> drained.r,
                upstreamHasCurrent |-> Iterator_hasCurrent(drained.S, upstream.r).r,
                left |-> Iterator_toArray(drained.S, upstream.r).r]
    /\ UNCHANGED <<text, root, fresh, nextCalled, exhausted, pair>>

TakeDrainCreated(s, n, upstream, taken) ==
    TakeDrainObserved(s, n, upstream, Iterator_toArray(taken.S, taken.r))

TakeDrainOf(s, n, upstream) ==
    TakeDrainCreated(s, n, upstream, Iterator_take(upstream.S, upstream.r, n))

\* upstream = s.iterate(); upstream.take(toTake).toArray(); upstream.toArray()
CallTakeDrain ==
    /\ call = NoCall
    /\ \E s \in BaseIterables, n \in Offsets :
           TakeDrainOf(s, n, Iterable_iterate(store, s))

\* The number of calls of next() that moved the upstream Iterator: it is at
\* the value of that number, or past the last value.
UpstreamAdvances ==
    IF call.upstreamHasCurrent
      THEN Len(call.all) - Len(call.left) + 1
      ELSE Len(call.all) + 1

\* C37: draining take(n) of an Iterator that has not started advances that
\* Iterator at most n times: no value after the n-th is consumed.
C37_TakeAdvancesUpstreamAtMostN ==
    call.op = "Iterator.take.drain" => UpstreamAdvances <= call.count

\* What the take view yields is the first n values all the same.
C37_TakeYieldsFirstN ==
    call.op = "Iterator.take.drain" =>
        call.result = SubSeq(call.all, 1, Min(call.count, Len(call.all)))

\* The upstream Iterator is advanced n + 1 times, or past its last value.
C37_TakeAdvancesUpstreamOnceMore ==
    call.op = "Iterator.take.drain" =>
        UpstreamAdvances = Min(call.count, Len(call.all)) + 1

\* take(1) of the Iterator of two values has yielded the first and left the
\* Iterator at the second.
C37_OnceMoreWitness ==
    /\ call.op = "Iterator.take.drain"
    /\ call.count = 1
    /\ call.all = <<10, 13>>
    /\ call.result = <<10>>
    /\ call.upstreamHasCurrent
    /\ call.left = <<13>>

\* ----------------------------------------------------------------- C38
\* Start and end indexes passed to new StringIterator(text, start, end).
StringBounds == -1 .. MaxLen

\* drained is what iterator.toArray() returned, reversed what
\* new StringIterable(text).iterateReverse().toArray() returns.
StringIteratorObserved(startIndex, endIndex, iterator, drained, reversed) ==
    /\ store' = reversed.S
    /\ call' = [op |-> "new StringIterator", startIndex |-> startIndex,
                endIndex |-> endIndex,
                result |-> drained.r,
                stateAfter |-> IteratorState(drained.S, iterator.r),
                nextAfter |-> Iterator_next(drained.S, iterator.r).r,
                reverse |-> Iterator_toArray(reversed.S, reversed.r).r]
    /\ UNCHANGED <<text, root, fresh, nextCalled, exhausted, pair>>

StringIteratorDrained(startIndex, endIndex, iterator, drained) ==
    StringIteratorObserved(startIndex, endIndex, iterator, drained,
        Indexable_iterateReverse(drained.S, TheStringIterable))

StringIteratorCreated(startIndex, endIndex, iterator) ==
    StringIteratorDrained(startIndex, endIndex, iterator,
                          Iterator_toArray(iterator.S, iterator.r))

\* new StringIterator(text, startIndex, endIndex).toArray()
CallStringIterator ==
    /\ call = NoCall
    /\ \E startIndex \in StringBounds, endIndex \in StringBounds :
           StringIteratorCreated(startIndex, endIndex,
               NewStringIterator(store, text, startIndex, endIndex))

\* The characters of the text at the indexes from startIndex up to
\* endIndex - 1, or from startIndex down to endIndex + 1.
CharactersBetween(startIndex, endIndex) ==
    IF endIndex >= startIndex
      THEN [k \in 1..(endIndex - startIndex) |-> CharAt(text, startIndex + k - 1)]
      ELSE [k \in 1..(startIndex - endIndex) |-> CharAt(text, startIndex - k + 1)]

\* C38: a StringIterator over text with the bounds (start, end) yields the
\* characters at the indexes start, start + 1, ..., end - 1 when
\* end >= start and at start, start - 1, ..., end + 1 when end < start, and
\* is exhausted after them; iterateReverse() of the StringIterable yields
\* the characters of the text in reverse order.
C38_StringIteratorBounds ==
    call.op = "new StringIterator" =>
        /\ call.result = CharactersBetween(call.startIndex, call.endIndex)
        /\ call.stateAfter = <<TRUE, FALSE, undefined>>
        /\ ~call.nextAfter
        /\ call.reverse = Reverse(text)

\* The text "\na" read from index 1 down to index 0.
C38_Witness ==
    /\ call.op = "new StringIterator"
    /\ text = <<10, 97>>
    /\ call.startIndex = 1
    /\ call.endIndex = -1
    /\ call.result = <<97, 10>>
    /\ call.reverse = <<97, 10>>

\* The same text read from index 0 up to index 1.
C38_ForwardWitness ==
    /\ call.op = "new StringIterator"
    /\ text = <<10, 97>>
    /\ call.startIndex = 0
    /\ call.endIndex = 2
    /\ call.result = <<10, 97>>

\* ----------------------------------------------------------------- C39
\* arrayList.any(condition) and singleLinkList.any(condition) of the two
\* lists, which hold the same values.
CallListAny ==
    /\ call = NoCall
    /\ \E condition \in Conditions \cup {"isLetter", undefinedFunction} :
           /\ call' = [op |-> "List.any", function |-> condition,
                       all |-> Iterable_toArray(store, TheSingleLinkList),
                       arrayList |-> Iterable_any(store, TheArrayList, condition).r,
                       singleLinkList |-> Iterable_any(store, TheSingleLinkList, condition).r]
           /\ UNCHANGED <<store, text, root, fresh, nextCalled, exhausted, pair>>

\* C39: SingleLinkList.any(condition) with a defined condition is true
\* exactly when a value of the list satisfies the condition, as
\* ArrayList.any(condition) is for the same values.
C39_SingleLinkListAnyCondition ==
    call.op = "List.any" /\ call.function # undefinedFunction =>
        /\ call.singleLinkList
             = (\E i \in 1..Len(call.all) : ApplyCondition(call.function, call.all[i]))
        /\ call.singleLinkList = call.arrayList

\* ArrayList.any(condition) is true exactly when a value satisfies the
\* condition, and any() of both lists exactly when they have a value.
C39_ArrayListAny ==
    call.op = "List.any" =>
        IF call.function # undefinedFunction
          THEN call.arrayList
                 = (\E i \in 1..Len(call.all) : ApplyCondition(call.function, call.all[i]))
          ELSE /\ call.arrayList = (call.all # << >>)
               /\ call.singleLinkList = (call.all # << >>)

\* ArrayList.any(isOdd) of [10, 13] is true.
C39_ArrayListAnyWitness ==
    /\ call.op = "List.any"
    /\ call.function = "isOdd"
    /\ call.all = <<10, 13>>
    /\ call.arrayList

\* ========================================= SingleLinkList links (LinkSpec)
SingleLinkList_setLast(S, value) ==
    IF isDefined(S.singleLinkList._tail)
      THEN [S EXCEPT !.nodes[S.singleLinkList._tail]._value = value]
      ELSE S

\* The loop of remove(value): the first node from searchNode on that holds
\* value (undefined if none does) and the node before it.
RECURSIVE SingleLinkList_searchFrom(_, _, _, _)
SingleLinkList_searchFrom(nodes, previousNode, searchNode, value) ==
    IF isDefined(searchNode) /\ nodes[searchNode]._value # value
      THEN SingleLinkList_searchFrom(nodes, searchNode, nodes[searchNode]._next, value)
      ELSE [previousNode |-> previousNode, searchNode |-> searchNode]

Unlink(S, previousNode, searchNode) ==
    IF ~isDefined(previousNode)
      THEN [S EXCEPT !.singleLinkList._head = S.nodes[searchNode]._next]
      ELSE [S EXCEPT !.nodes[previousNode]._next = S.nodes[searchNode]._next]

RemoveFound(S, previousNode, searchNode) ==
    IF isDefined(searchNode)
      THEN Ret(IF searchNode = S.singleLinkList._tail
                 THEN [Unlink(S, previousNode, searchNode)
                          EXCEPT !.singleLinkList._tail = previousNode]
                 ELSE Unlink(S, previousNode, searchNode),
               S.nodes[searchNode]._value)
      ELSE Ret(S, undefined)

SingleLinkList_removeFound(S, found) ==
    RemoveFound(S, found.previousNode, found.searchNode)

\* remove(value) with the default comparer, ===.
SingleLinkList_remove(S, value) ==
    SingleLinkList_removeFound(
        S, SingleLinkList_searchFrom(S.nodes, undefined, S.singleLinkList._head, value))

LinkRemove ==
    /\ root = undefined
    /\ \E value \in Values :
           ListCalled("remove", TheSingleLinkList, value,
                      SingleLinkList_remove(store, value))

LinkSetLast ==
    /\ root = undefined
    /\ \E value \in Values :
           ListCalled("setLast", TheSingleLinkList, value,
                      Ret(SingleLinkList_setLast(store, value), undefined))

LinkAdd ==
    /\ root = undefined
    /\ \E value \in Values :
           /\ Len(store.nodes) < MaxNodes
           /\ ListCalled("add", TheSingleLinkList, value,
                         Ret(SingleLinkList_addTo(store, value), undefined))

LinkRemoveAt ==
    /\ root = undefined
    /\ \E index \in Indexes :
           ListCalled("removeAt", TheSingleLinkList, index,
                      SingleLinkList_removeAt(store, index))

LinkRemoveFirst ==
    /\ root = undefined
    /\ ListCalled("removeFirst", TheSingleLinkList, undefined,
                  SingleLinkList_removeFirst(store))

LinkRemoveLast ==
    /\ root = undefined
    /\ ListCalled("removeLast", TheSingleLinkList, undefined,
                  SingleLinkList_removeLast(store))

LinkClear ==
    /\ root = undefined
    /\ ListCalled("clear", TheSingleLinkList, undefined,
                  Ret(SingleLinkList_clear(store), undefined))

LinkNext ==
    \/ LinkAdd
    \/ LinkRemoveAt
    \/ LinkRemoveFirst
    \/ LinkRemoveLast
    \/ LinkClear
    \/ LinkRemove
    \/ LinkSetLast

LinkSpec == Init /\ [][LinkNext]_vars

\* The last node reachable from node: the one whose next link is undefined.
RECURSIVE LastNodeFrom(_, _)
LastNodeFrom(nodes, node) ==
    IF isDefined(nodes[node]._next) THEN LastNodeFrom(nodes, nodes[node]._next)
    ELSE node

TailIsLastNode(S) ==
    IF isDefined(S.singleLinkList._head)
      THEN S.singleLinkList._tail = LastNodeFrom(S.nodes, S.singleLinkList._head)
      ELSE ~isDefined(S.singleLinkList._tail)

\* toArray() of a list after its last element became value.
WithLast(values, value) ==
    IF values = << >> THEN << >> ELSE [values EXCEPT ![Len(values)] = value]

\* ----------------------------------------------------------------- C40
\* C40: in every state of a SingleLinkList that add, removeAt, remove,
\* removeFirst, removeLast and clear reach, _head and _tail are both
\* undefined when the list is empty and otherwise _tail is the last node
\* reachable from _head, so setLast(v) changes exactly the last element.
C40_TailIsLastNodeAndSetLast ==
    /\ TailIsLastNode(store)
    /\ call.op = "setLast" /\ call.list = "SingleLinkList" =>
           call.after = WithLast(call.before, call.arg)

\* remove(value) keeps _tail: after a remove() on a list whose _tail was its
\* last node, _tail is its last node again.
C40_RemoveKeepsTail ==
    [][(\E value \in Values :
            store' = SingleLinkList_remove(store, value).S)
          /\ TailIsLastNode(store)
        => TailIsLastNode(store')]_vars

\* setLast(v) writes the node _tail refers to, and nothing when there is none.
C40_SetLastWritesTail ==
    call.op = "setLast" /\ call.list = "SingleLinkList" =>
        IF isDefined(store.singleLinkList._tail)
          THEN store.nodes[store.singleLinkList._tail]._value = call.arg
          ELSE call.after = call.before

\* setLast(97) on a list that holds [10]: toArray() is [10] afterwards.
C40_StaleTailWitness ==
    /\ call.op = "setLast"
    /\ call.list = "SingleLinkList"
    /\ call.arg = 97
    /\ call.before = <<10>>
    /\ call.after = <<10>>

\* remove(13) took the last node of [10, 13] and _tail is the node of 10.
C40_RemoveLastNodeWitness ==
    /\ call.op = "remove"
    /\ call.before = <<10, 13>>
    /\ call.after = <<10>>
    /\ TailIsLastNode(store)

\* ------------------------------------------------------------ ConsumeSpec
ConsumeNext ==
    \/ CallTakeToArrayNext
    \/ CallSkipConstructor
    \/ CallEndsWith
    \/ CallIteratorGetCount
    \/ CallIteratorAny
    \/ CallIterateReverse
    \/ CallTakeDrain
    \/ CallStringIterator
    \/ CallListAny

ConsumeSpec == Init /\ [][ConsumeNext]_vars

====
